---------------------------- MODULE Spec2Model ----------------------------
(***************************************************************************)
(* A model of the WIF ECM requirement-to-test-case engine                  *)
(* (src/src/testgenai/wif_ecm): the identifier allocator, the test case    *)
(* synthesizer, the validator, the coverage engine, the loading of the     *)
(* requirements workbook and the pipeline of run().                        *)
(*                                                                         *)
(* The specifications share the variables: SpecAlloc (any sequence of      *)
(* identifier allocations on one generator), SpecValidate (one call of a   *)
(* validator method on a fresh validator), Spec (run() on a workbook),     *)
(* SpecSynth (the synthesis of the test cases of a store in any order,     *)
(* then their validation), SpecRace (two interleaved identifier            *)
(* allocations) and SpecRules (the generic rule-based path).               *)
(*                                                                         *)
(* Python strings are sequences of one-character strings, so that the      *)
(* regular expressions and the string formatting of the source are         *)
(* computed character by character.  None is the one-element sequence      *)
(* <<"None">>, which no Python string equals.                              *)
(***************************************************************************)
EXTENDS Integers, Sequences, FiniteSets, TLC

VARIABLES
    sys_counter,     \* WIFTestCaseGenerator._sys_counter  : req_id -> int
    sw_counter,      \* WIFTestCaseGenerator._sw_counter
    diag_counter,    \* WIFTestCaseGenerator._diag_counter
    allocs,          \* the calls of _generate_test_case_id so far, with what each returned
    requirements,    \* WIFTestCaseGenerator.requirements, TestCaseValidator.requirements
    a2l_parameters,  \* WIFTestCaseGenerator.a2l_parameters, TestCaseValidator.a2l_parameters
    v_errors,        \* TestCaseValidator.errors
    v_op,            \* the validator method called last ("none" before any call)
    v_in,            \* the test cases that call was given
    v_valid,         \* the flag validate_test_case or validate_all returned
    v_ret,           \* the error list validate_test_case or validate_all returned
    v_report,        \* the report validate_coverage returned
    pc,              \* the phase run() has completed
    workbook,        \* the requirements file as _load_requirements read it
    test_cases,      \* WIFTestCaseGenerator.test_cases
    validator,       \* WIFTestCaseGenerator.validator is not None
    run_is_valid,    \* run(): is_valid
    run_errors,      \* run(): errors
    run_coverage,    \* run(): coverage
    output_files,    \* run(): output_files, the artifacts export_results returned
    fs,              \* the artifacts that exist in the output directory
    removed,         \* how many artifacts the environment has removed
    result,          \* what run() returned ("none" while it runs)
    heap,            \* the list objects: the three class-level default lists, then the copies
    tc_lists,        \* for each test case created, its preconditions, postconditions and test_tools objects
    pending,         \* the requirements of the store not yet synthesized
    t_pc,            \* for each of two callers of _generate_test_case_id, the statement it is at
    t_arg,           \* the req_id and tc_type each caller was given
    t_tmp,           \* the count each caller read at counter[req_id] += 1
    t_ret,           \* the identifier each caller returned
    overlapped,      \* a caller has taken a step while the other was between its first and last
    rule_requirements,  \* the requirements given to RuleEngine.build_baseline_tests
    rule_tests,      \* the tests build_baseline_tests returned
    rule_matrix,     \* the matrix build_trace_matrix returned
    asil_cell,       \* the cell of the safety-level column of a row _load_sheet reads
    parsed_asil,     \* what _parse_asil returned for it (<<>> before the call)
    v_calls          \* the number of calls made on one validator in a sequence of calls

genVars == <<sys_counter, sw_counter, diag_counter, allocs>>

valVars == <<v_errors, v_op, v_in, v_valid, v_ret, v_report>>

runVars == <<pc, workbook, test_cases, validator, run_is_valid, run_errors, run_coverage,
             output_files, fs, removed, result>>

synVars == <<heap, tc_lists, pending>>

raceVars == <<t_pc, t_arg, t_tmp, t_ret, overlapped>>

ruleVars == <<rule_requirements, rule_tests, rule_matrix>>

parseVars == <<asil_cell, parsed_asil>>

seqVars == <<v_calls>>

auxVars == <<synVars, raceVars, ruleVars, parseVars, seqVars>>

vars == <<genVars, requirements, a2l_parameters, valVars, runVars, auxVars>>

\* The synthesizer's list objects, the two callers, the rule engine, the
\* safety-level parser and the call sequence before anything has used them.
SynIdle == heap = <<>> /\ tc_lists = <<>> /\ pending = {}

RaceIdle ==
    /\ t_pc = <<>>
    /\ t_arg = <<>>
    /\ t_tmp = <<>>
    /\ t_ret = <<>>
    /\ overlapped = FALSE

RuleIdle == rule_requirements = <<>> /\ rule_tests = <<>> /\ rule_matrix = <<>>

ParseIdle == asil_cell = <<>> /\ parsed_asil = <<>>

SeqIdle == v_calls = 0

---------------------------------------------------------------------------
(* Bounds of the model.                                                    *)

\* The number of _generate_test_case_id calls on one generator.
MaxAllocs == 3

\* The number of steps of a test case given to the validator.
MaxSteps == 2

\* The number of test cases in a list given to validate_all or validate_coverage.
MaxBatch == 3

\* The number of rows of the three requirement sheets of a workbook together.
MaxRows == 2

\* The number of artifacts the environment removes before the checklist.
MaxRemovals == 1

\* The number of requirements of a store whose test cases are synthesized in any order.
MaxStore == 2

\* The number of requirements given to the rule engine.
MaxRuleReqs == 3

\* The number of calls made on one validator in a sequence of calls.
MaxCalls == 2

\* The length of a list given to validate_all or validate_coverage in a
\* sequence of calls.
MaxSeqBatch == 1

---------------------------------------------------------------------------
(* Characters and strings.                                                 *)

\* chr(32) .. chr(126); chr(96) is never used and stands as a word.
Ascii ==
    <<" ","!","\"","#","$","%","&","'","(",")","*","+",",","-",".","/",
      "0","1","2","3","4","5","6","7","8","9",":",";","<","=",">","?",
      "@","A","B","C","D","E","F","G","H","I","J","K","L","M","N","O",
      "P","Q","R","S","T","U","V","W","X","Y","Z","[","\\","]","^","_",
      "GRAVE","a","b","c","d","e","f","g","h","i","j","k","l","m","n","o",
      "p","q","r","s","t","u","v","w","x","y","z","{","|","}","~">>

\* The characters of the model: ASCII, tab and newline, and a word for each
\* of U+2264, U+2265, U+00B1, U+03A9 and U+03C9.
CharSet ==
    {Ascii[i] : i \in 1..Len(Ascii)} \cup {"\n", "\t", "LE", "GE", "PLUSMINUS", "OMEGA", "omega"}

\* ord(c)
Ord ==
    [c \in CharSet |->
        IF c = "\n" THEN 10
        ELSE IF c = "\t" THEN 9
        ELSE IF c = "LE" THEN 8804
        ELSE IF c = "GE" THEN 8805
        ELSE IF c = "PLUSMINUS" THEN 177
        ELSE IF c = "OMEGA" THEN 937
        ELSE IF c = "omega" THEN 969
        ELSE 31 + (CHOOSE i \in 1..Len(Ascii) : Ascii[i] = c)]

\* chr(n), for 32 <= n <= 126
Chr(n) == Ascii[n - 31]

None == <<"None">>

\* bool(s) for an Optional[str]
Truthy(s) == s # None /\ s # <<>>

\* \d, for the ASCII digits
IsDigit(c) == c \in {"0","1","2","3","4","5","6","7","8","9"}

\* [0-9A-Fa-f]
IsHex(c) ==
    \/ IsDigit(c)
    \/ c \in {"A","B","C","D","E","F","a","b","c","d","e","f"}

\* \w of a str pattern (Unicode-aware): the digits, the underscore and the
\* letters, the Greek omegas among them
IsWord(c) ==
    \/ IsDigit(c)
    \/ c = "_"
    \/ (Ord[c] >= 65 /\ Ord[c] <= 90)
    \/ (Ord[c] >= 97 /\ Ord[c] <= 122)
    \/ c \in {"OMEGA", "omega"}

\* \s
IsSpace(c) == c \in {" ", "\n", "\t"}

LowerChar(c) ==
    IF Ord[c] >= 65 /\ Ord[c] <= 90 THEN Chr(Ord[c] + 32)
    ELSE IF c = "OMEGA" THEN "omega"
    ELSE c

\* str.lower()
Lower(s) == [i \in 1..Len(s) |-> LowerChar(s[i])]

\* s.startswith(p, i-1): p occurs in s at the 1-based position i
OccursAt(s, p, i) ==
    /\ i >= 1
    /\ i + Len(p) - 1 <= Len(s)
    /\ SubSeq(s, i, i + Len(p) - 1) = p

\* p in s
Contains(s, p) == \E i \in 1..(Len(s) - Len(p) + 1) : OccursAt(s, p, i)

Min(S) == CHOOSE m \in S : \A n \in S : m <= n

Max(S) == CHOOSE m \in S : \A n \in S : m >= n

\* The text that `$` lets a pattern end at: the whole string, or the string
\* without its final newline.
BeforeDollar(s) ==
    IF Len(s) > 0 /\ s[Len(s)] = "\n" THEN {s, SubSeq(s, 1, Len(s) - 1)} ELSE {s}

\* str(n) for an integer n
RECURSIVE StrNat(_)
StrNat(n) == IF n < 10 THEN <<Chr(48 + n)>> ELSE Append(StrNat(n \div 10), Chr(48 + (n % 10)))

StrInt(n) == IF n < 0 THEN <<"-">> \o StrNat(0 - n) ELSE StrNat(n)

\* s.zfill(width)
RECURSIVE Zeros(_)
Zeros(n) == IF n <= 0 THEN <<>> ELSE <<"0">> \o Zeros(n - 1)

zfill(s, width) ==
    IF Len(s) > 0 /\ s[1] \in {"+", "-"}
    THEN <<s[1]>> \o Zeros(width - Len(s)) \o Tail(s)
    ELSE Zeros(width - Len(s)) \o s

\* re.findall(r'\d+', s)[0], for a string that holds a digit
FirstDigitRun(s) ==
    LET i == Min({k \in 1..Len(s) : IsDigit(s[k])})
        j == Max({k \in i..Len(s) : \A m \in i..k : IsDigit(s[m])})
    IN  SubSeq(s, i, j)

HasDigit(s) == \E k \in 1..Len(s) : IsDigit(s[k])

---------------------------------------------------------------------------
(* models.py: RequirementType.  An enumeration member is its value.        *)

SYSTEM == <<"S","y","s","t","e","m">>
SOFTWARE == <<"S","o","f","t","w","a","r","e">>
DIAGNOSTIC == <<"D","i","a","g","n","o","s","t","i","c">>

RequirementType == {SYSTEM, SOFTWARE, DIAGNOSTIC}

---------------------------------------------------------------------------
(* generator.py: the identifier allocator.                                 *)

WIF_ == <<"W","I","F","_">>

\* re.search(r'WIF_(\d{3})', req_id): the positions where the pattern matches
WifMatches(req_id) ==
    {i \in 1..(Len(req_id) - 6) :
        /\ OccursAt(req_id, WIF_, i)
        /\ \A k \in 4..6 : IsDigit(req_id[i + k])}

\* req_num: the three digits after WIF_, else the first digit run padded to
\* three, else "001"
ReqNum(req_id) ==
    IF WifMatches(req_id) # {}
    THEN LET i == Min(WifMatches(req_id)) IN SubSeq(req_id, i + 4, i + 6)
    ELSE IF HasDigit(req_id) THEN zfill(FirstDigitRun(req_id), 3) ELSE <<"0","0","1">>

\* prefix of _generate_test_case_id
Prefix(tc_type) ==
    IF tc_type = SYSTEM THEN <<"T","C","_","S","Y","S","_","S","Y","S","_","W","I","F">>
    ELSE IF tc_type = SOFTWARE THEN <<"T","C","_","S","W","_","S","W","_","W","I","F">>
    ELSE <<"T","C","_","D","I","A","G","_","D","I","A","G","_","W","I","F">>

\* The counter step with one count shared by every requirement identifier.
CounterBumpShared(counter, req_id) ==
    LET c0 == IF req_id \in DOMAIN counter THEN counter ELSE counter @@ (req_id :> 0)
    IN  [k \in DOMAIN c0 |-> c0[k] + 1]

\* if req_id not in counter: counter[req_id] = 0 ; counter[req_id] += 1
CounterBump(counter, req_id) ==
    LET c0 == IF req_id \in DOMAIN counter THEN counter ELSE counter @@ (req_id :> 0)
    IN  [c0 EXCEPT ![req_id] = @ + 1]

\* seq_num = str(counter[req_id]).zfill(3)
SeqNum(n) == zfill(StrInt(n), 3)

\* f"{prefix}_{req_num}_{seq_num}"
FormatTestCaseId(prefix, req_num, seq_num) ==
    prefix \o <<"_">> \o req_num \o <<"_">> \o seq_num

\* The allocator with one count for each category, whatever the requirement.
GenerateTestCaseIdPerCategory(ctr, req_id, tc_type) ==
    LET which == IF tc_type = SYSTEM THEN "sys"
                 ELSE IF tc_type = SOFTWARE THEN "sw" ELSE "diag"
        counter == CounterBump(ctr[which], <<"*">>)
    IN  [id  |-> FormatTestCaseId(Prefix(tc_type), ReqNum(req_id), SeqNum(counter[<<"*">>])),
         ctr |-> [ctr EXCEPT ![which] = counter]]

\* _generate_test_case_id on the counters ctr = [sys, sw, diag]: the
\* identifier returned and the counters it leaves.
GenerateTestCaseId(ctr, req_id, tc_type) ==
    LET which == IF tc_type = SYSTEM THEN "sys"
                 ELSE IF tc_type = SOFTWARE THEN "sw" ELSE "diag"
        counter == CounterBump(ctr[which], req_id)
    IN  [id  |-> FormatTestCaseId(Prefix(tc_type), ReqNum(req_id), SeqNum(counter[req_id])),
         ctr |-> [ctr EXCEPT ![which] = counter]]

Counters == [sys |-> sys_counter, sw |-> sw_counter, diag |-> diag_counter]

EmptyDict == <<>>

---------------------------------------------------------------------------
(* validators.py: the identifier format.                                   *)

\* SYSTEM_TC_PATTERN, SOFTWARE_TC_PATTERN, DIAGNOSTIC_TC_PATTERN .match(s):
\* ^<prefix>_\d{3}_\d{3}$
MatchesTcPattern(prefix, s) ==
    \E t \in BeforeDollar(s) :
        LET n == Len(prefix) IN
        /\ Len(t) = n + 8
        /\ SubSeq(t, 1, n) = prefix
        /\ t[n + 1] = "_"
        /\ \A k \in 2..4 : IsDigit(t[n + k])
        /\ t[n + 5] = "_"
        /\ \A k \in 6..8 : IsDigit(t[n + k])

\* _validate_test_case_id
ValidateTestCaseId(tc_type, test_case_id) ==
    IF tc_type = SYSTEM THEN MatchesTcPattern(Prefix(SYSTEM), test_case_id)
    ELSE IF tc_type = SOFTWARE THEN MatchesTcPattern(Prefix(SOFTWARE), test_case_id)
    ELSE IF tc_type = DIAGNOSTIC THEN MatchesTcPattern(Prefix(DIAGNOSTIC), test_case_id)
    ELSE FALSE

---------------------------------------------------------------------------
(* models.py: the other enumerations and the records.                      *)

ASIL_A == <<"A","S","I","L","-","A">>
ASIL_B == <<"A","S","I","L","-","B">>
ASIL_C == <<"A","S","I","L","-","C">>
ASIL_D == <<"A","S","I","L","-","D">>
QM == <<"Q","M">>

ASILLevel == {ASIL_A, ASIL_B, ASIL_C, ASIL_D, QM}

AUTOMATED == <<"A","u","t","o","m","a","t","e","d">>

HIL == <<"H","I","L">>

CRITICAL == "CRITICAL"
WARNING == "WARNING"

\* WIFRequirement
WIFRequirement(req_id, description, req_type, asil_level, parent_system_req, dtc_code, calibration_params) ==
    [req_id |-> req_id, description |-> description, req_type |-> req_type,
     asil_level |-> asil_level, parent_system_req |-> parent_system_req,
     dtc_code |-> dtc_code, calibration_params |-> calibration_params,
     raw_text |-> description]

\* WIFTestStep
WIFTestStep(step_no, action, expected_result) ==
    [step_no |-> step_no, action |-> action, expected_result |-> expected_result,
     verification_method |-> AUTOMATED]

\* Traceability
Traceability(system_req, software_req, diagnostic_req, a2l_reference) ==
    [system_req |-> system_req, software_req |-> software_req,
     diagnostic_req |-> diagnostic_req, a2l_reference |-> a2l_reference]

\* ValidationError; message holds the values the source formats into the text
ValidationError(test_case_id, error_type, message, severity) ==
    [test_case_id |-> test_case_id, error_type |-> error_type,
     message |-> message, severity |-> severity]

\* CoverageReport(): coverage_percentage is the exact quotient num/den
CoverageReport ==
    [total_requirements |-> 0, covered_requirements |-> 0, total_test_cases |-> 0,
     system_test_cases |-> 0, software_test_cases |-> 0, diagnostic_test_cases |-> 0,
     uncovered_requirements |-> <<>>, coverage_percentage |-> [num |-> 0, den |-> 1]]

\* coverage_percentage >= 100.0
PercentageAtLeast100(report) ==
    report.coverage_percentage.num >= 100 * report.coverage_percentage.den

\* CoverageReport.is_complete
is_complete(report) ==
    PercentageAtLeast100(report) /\ Len(report.uncovered_requirements) = 0

---------------------------------------------------------------------------
(* The Requirement Store: a dict, insertion-ordered, kept as the sequence  *)
(* of its values; the key of a value is its req_id.                        *)

Keys(reqs) == {reqs[i].req_id : i \in 1..Len(reqs)}

Get(reqs, req_id) == reqs[CHOOSE i \in 1..Len(reqs) : reqs[i].req_id = req_id]

\* self.requirements[req_id] = req
Put(reqs, req) ==
    IF req.req_id \in Keys(reqs)
    THEN [i \in 1..Len(reqs) |-> IF reqs[i].req_id = req.req_id THEN req ELSE reqs[i]]
    ELSE Append(reqs, req)

---------------------------------------------------------------------------
(* validators.py: TestCaseValidator.                                       *)

\* DTC_PATTERN.match(s): ^P[0-9A-Fa-f]{4}$
MatchesDtcPattern(s) ==
    \E t \in BeforeDollar(s) :
        /\ Len(t) = 5
        /\ t[1] = "P"
        /\ \A k \in 2..5 : IsHex(t[k])

CAL_WIF_ == <<"C","A","L","_","W","I","F","_">>

\* A2L_PATTERN.match(s): ^CAL_WIF_\w+$
MatchesA2lPattern(s) ==
    \E t \in BeforeDollar(s) :
        /\ Len(t) > Len(CAL_WIF_)
        /\ SubSeq(t, 1, Len(CAL_WIF_)) = CAL_WIF_
        /\ \A k \in (Len(CAL_WIF_) + 1)..Len(t) : IsWord(t[k])

\* re.search(r'^\s*<word>\s*$', s, re.IGNORECASE)
IsBareWord(s, word) ==
    LET low == Lower(s) IN
    \E i \in 1..(Len(s) - Len(word) + 1) :
        /\ OccursAt(low, word, i)
        /\ \A k \in 1..(i - 1) : IsSpace(s[k])
        /\ \A k \in (i + Len(word))..Len(s) : IsSpace(s[k])

\* re.search(r'<a>\s+<b>', s, re.IGNORECASE)
HasSpacedPair(s, a, b) ==
    LET low == Lower(s) IN
    \E i \in 1..(Len(s) - Len(a) - Len(b)) :
        /\ OccursAt(low, a, i)
        /\ \E j \in (i + Len(a) + 1)..(Len(s) - Len(b) + 1) :
              /\ \A k \in (i + Len(a))..(j - 1) : IsSpace(s[k])
              /\ OccursAt(low, b, j)

\* any(re.search(pattern, s, re.IGNORECASE) for pattern in vague_patterns)
IsVague(s) ==
    \/ IsBareWord(s, <<"c","h","e","c","k">>)
    \/ IsBareWord(s, <<"v","e","r","i","f","y">>)
    \/ IsBareWord(s, <<"t","e","s","t">>)
    \/ IsBareWord(s, <<"c","o","n","f","i","r","m">>)
    \/ HasSpacedPair(s, <<"i","f">>, <<"w","o","r","k","i","n","g">>)
    \/ HasSpacedPair(s, <<"w","o","r","k","i","n","g">>, <<"c","o","r","r","e","c","t","l","y">>)
    \/ HasSpacedPair(s, <<"a","s">>, <<"e","x","p","e","c","t","e","d">>)

\* re.search(measurable_pattern, s, re.IGNORECASE)
IsMeasurable(s) ==
    \/ \E k \in 1..Len(s) : s[k] \in {"<", ">", "=", "LE", "GE"}
    \/ HasDigit(s)
    \/ Contains(Lower(s), <<"t","r","u","e">>)
    \/ Contains(Lower(s), <<"f","a","l","s","e">>)
    \/ \E k \in 1..(Len(s) - 2) :
          s[k] = "0" /\ LowerChar(s[k + 1]) = "x" /\ IsHex(s[k + 2])

Opt(cond, error) == IF cond THEN <<error>> ELSE <<>>

\* The loop body with the missing quantifiable token reported as CRITICAL.
StepErrorsCritical(tc, step) ==
    Opt(IsVague(step.action),
        ValidationError(tc.test_case_id, "VAGUE_ACTION",
                        <<StrInt(step.step_no), step.action>>, CRITICAL))
    \o
    Opt(IsVague(step.expected_result),
        ValidationError(tc.test_case_id, "VAGUE_EXPECTED_RESULT",
                        <<StrInt(step.step_no), step.expected_result>>, CRITICAL))
    \o
    Opt(~IsMeasurable(step.expected_result),
        ValidationError(tc.test_case_id, "NON_MEASURABLE_RESULT",
                        <<StrInt(step.step_no)>>, CRITICAL))

\* The body of the loop of _validate_test_steps for one step.
StepErrors(tc, step) ==
    Opt(IsVague(step.action),
        ValidationError(tc.test_case_id, "VAGUE_ACTION",
                        <<StrInt(step.step_no), step.action>>, CRITICAL))
    \o
    Opt(IsVague(step.expected_result),
        ValidationError(tc.test_case_id, "VAGUE_EXPECTED_RESULT",
                        <<StrInt(step.step_no), step.expected_result>>, CRITICAL))
    \o
    Opt(~IsMeasurable(step.expected_result),
        ValidationError(tc.test_case_id, "NON_MEASURABLE_RESULT",
                        <<StrInt(step.step_no)>>, WARNING))

RECURSIVE AllStepErrors(_, _)
AllStepErrors(tc, steps) ==
    IF steps = <<>> THEN <<>>
    ELSE StepErrors(tc, Head(steps)) \o AllStepErrors(tc, Tail(steps))

\* _validate_test_steps
ValidateTestSteps(tc) ==
    IF tc.test_steps = <<>>
    THEN <<ValidationError(tc.test_case_id, "NO_TEST_STEPS", <<>>, CRITICAL)>>
    ELSE AllStepErrors(tc, tc.test_steps)

\* The traceability check without the parent check of a Software test case.
ValidateTraceabilityNoParent(reqs, tc) ==
    LET trace == tc.traceability IN
    Opt(tc.type = SYSTEM /\ ~Truthy(trace.system_req),
        ValidationError(tc.test_case_id, "MISSING_SYSTEM_TRACE", <<>>, CRITICAL))
    \o
    Opt(tc.type = SOFTWARE /\ ~Truthy(trace.software_req),
        ValidationError(tc.test_case_id, "MISSING_SOFTWARE_TRACE", <<>>, CRITICAL))
    \o
    Opt(tc.type = DIAGNOSTIC /\ ~Truthy(trace.diagnostic_req),
        ValidationError(tc.test_case_id, "MISSING_DIAGNOSTIC_TRACE", <<>>, CRITICAL))

\* _validate_traceability
ValidateTraceability(reqs, tc) ==
    LET trace == tc.traceability IN
    Opt(tc.type = SYSTEM /\ ~Truthy(trace.system_req),
        ValidationError(tc.test_case_id, "MISSING_SYSTEM_TRACE", <<>>, CRITICAL))
    \o
    Opt(tc.type = SOFTWARE /\ ~Truthy(trace.software_req),
        ValidationError(tc.test_case_id, "MISSING_SOFTWARE_TRACE", <<>>, CRITICAL))
    \o
    (IF tc.type = SOFTWARE /\ tc.requirement_id \in Keys(reqs)
     THEN LET req == Get(reqs, tc.requirement_id) IN
          Opt(Truthy(req.parent_system_req) /\ ~Truthy(trace.system_req),
              ValidationError(tc.test_case_id, "MISSING_PARENT_TRACE",
                              <<req.parent_system_req>>, CRITICAL))
     ELSE <<>>)
    \o
    Opt(tc.type = DIAGNOSTIC /\ ~Truthy(trace.diagnostic_req),
        ValidationError(tc.test_case_id, "MISSING_DIAGNOSTIC_TRACE", <<>>, CRITICAL))

\* Checks 1 to 3 with checks 2 and 3 made for a missing requirement too.
RequirementErrorsNoSkip(reqs, tc) ==
    Opt(tc.requirement_id \notin Keys(reqs),
        ValidationError(tc.test_case_id, "INVALID_REQUIREMENT_REF",
                        <<tc.requirement_id>>, CRITICAL))
    \o
    Opt(tc.requirement_id \notin Keys(reqs) \/ tc.asil_level # Get(reqs, tc.requirement_id).asil_level,
        ValidationError(tc.test_case_id, "ASIL_MISMATCH", <<tc.asil_level>>, CRITICAL))
    \o
    Opt(tc.requirement_id \notin Keys(reqs) \/ tc.type # Get(reqs, tc.requirement_id).req_type,
        ValidationError(tc.test_case_id, "TYPE_MISMATCH", <<tc.type>>, CRITICAL))

\* validate_test_case, checks 1 to 3: the requirement reference, and the
\* safety level and the category when the requirement exists
RequirementErrors(reqs, tc) ==
    IF tc.requirement_id \notin Keys(reqs)
    THEN <<ValidationError(tc.test_case_id, "INVALID_REQUIREMENT_REF",
                           <<tc.requirement_id>>, CRITICAL)>>
    ELSE LET req == Get(reqs, tc.requirement_id) IN
         Opt(tc.asil_level # req.asil_level,
             ValidationError(tc.test_case_id, "ASIL_MISMATCH",
                             <<req.asil_level, tc.asil_level>>, CRITICAL))
         \o
         Opt(tc.type # req.req_type,
             ValidationError(tc.test_case_id, "TYPE_MISMATCH",
                             <<req.req_type, tc.type>>, CRITICAL))

\* validate_test_case, check 5: the trouble code
DtcErrors(tc) ==
    Opt(/\ tc.type = DIAGNOSTIC \/ Contains(tc.requirement_id, <<"D","I","A","G">>)
        /\ Truthy(tc.dtc_code)
        /\ ~MatchesDtcPattern(tc.dtc_code),
        ValidationError(tc.test_case_id, "INVALID_DTC_CODE", <<tc.dtc_code>>, CRITICAL))

\* Check 6 with the membership test made for every declared reference.
A2lErrorsBothChecks(a2l, tc) ==
    LET ref == tc.traceability.a2l_reference IN
    IF ~Truthy(ref) THEN <<>>
    ELSE Opt(~MatchesA2lPattern(ref),
             ValidationError(tc.test_case_id, "INVALID_A2L_FORMAT", <<ref>>, CRITICAL))
         \o
         Opt(a2l # {} /\ ref \notin a2l,
             ValidationError(tc.test_case_id, "INVALID_A2L_REF", <<ref>>, CRITICAL))

\* validate_test_case, check 6: the calibration reference
A2lErrors(a2l, tc) ==
    LET ref == tc.traceability.a2l_reference IN
    IF ~Truthy(ref) THEN <<>>
    ELSE IF ~MatchesA2lPattern(ref)
    THEN <<ValidationError(tc.test_case_id, "INVALID_A2L_FORMAT", <<ref>>, CRITICAL)>>
    ELSE Opt(a2l # {} /\ ref \notin a2l,
             ValidationError(tc.test_case_id, "INVALID_A2L_REF", <<ref>>, CRITICAL))

\* validate_test_case, check 9: the pass criteria
PassCriteriaErrors(tc) ==
    Opt(Len(tc.pass_criteria) < 10,
        ValidationError(tc.test_case_id, "VAGUE_PASS_CRITERIA", <<>>, CRITICAL))

\* The errors validate_test_case collects, in the order it collects them.
TestCaseErrors(reqs, a2l, tc) ==
    RequirementErrors(reqs, tc)
    \o Opt(~ValidateTestCaseId(tc.type, tc.test_case_id),
           ValidationError(tc.test_case_id, "INVALID_ID_FORMAT",
                           <<tc.test_case_id, tc.type>>, CRITICAL))
    \o DtcErrors(tc)
    \o A2lErrors(a2l, tc)
    \o ValidateTestSteps(tc)
    \o ValidateTraceability(reqs, tc)
    \o PassCriteriaErrors(tc)

\* critical_errors = [e for e in errors if e.severity == "CRITICAL"]
CriticalErrors(errors) == SelectSeq(errors, LAMBDA e : e.severity = CRITICAL)

\* The verdict with the errors of any severity counted.
NoneCriticalAnySeverity(errors) == Len(errors) = 0

\* len(critical_errors) == 0
NoneCritical(errors) == Len(CriticalErrors(errors)) = 0

\* validate_test_case with self.errors replaced by the errors of the call.
validate_test_case_replacing(reqs, a2l, self_errors, tc) ==
    LET errors == TestCaseErrors(reqs, a2l, tc) IN
    [is_valid |-> NoneCritical(errors), errors |-> errors, self_errors |-> errors]

\* validate_test_case: what it returns and what it leaves in self.errors
validate_test_case(reqs, a2l, self_errors, tc) ==
    LET errors == TestCaseErrors(reqs, a2l, tc) IN
    [is_valid |-> NoneCritical(errors), errors |-> errors,
     self_errors |-> self_errors \o errors]

\* validate_all: the loop over the test cases
RECURSIVE validate_all_from(_, _, _, _, _, _)
validate_all_from(reqs, a2l, self_errors, tcs, all_valid, all_errors) ==
    IF tcs = <<>>
    THEN [all_valid |-> all_valid, errors |-> all_errors, self_errors |-> self_errors]
    ELSE LET r == validate_test_case(reqs, a2l, self_errors, Head(tcs)) IN
         validate_all_from(reqs, a2l, r.self_errors, Tail(tcs),
                           IF ~r.is_valid THEN FALSE ELSE all_valid,
                           all_errors \o r.errors)

validate_all(reqs, a2l, self_errors, tcs) ==
    validate_all_from(reqs, a2l, self_errors, tcs, TRUE, <<>>)

\* a < b for Python strings: by code point, a proper prefix first
RECURSIVE StrLess(_, _)
StrLess(a, b) ==
    IF b = <<>> THEN FALSE
    ELSE IF a = <<>> THEN TRUE
    ELSE IF Ord[Head(a)] # Ord[Head(b)] THEN Ord[Head(a)] < Ord[Head(b)]
    ELSE StrLess(Tail(a), Tail(b))

\* list(sorted(S)) for a set of strings
RECURSIVE Sorted(_)
Sorted(S) ==
    IF S = {} THEN <<>>
    ELSE LET m == CHOOSE x \in S : \A y \in S \ {x} : StrLess(x, y)
         IN  <<m>> \o Sorted(S \ {m})

CountType(tcs, tc_type) ==
    Cardinality({i \in 1..Len(tcs) : tcs[i].type = tc_type})

\* covered_reqs: the requirement_id of every test case, stored or not
CoveredReqs(reqs, tcs) ==
    {tcs[i].requirement_id : i \in 1..Len(tcs)}

Uncovered(reqs, covered_reqs) == Keys(reqs) \ covered_reqs

\* The uncovered set listed without sorting (here: in descending order).
UncoveredListUnsorted(uncovered) ==
    LET RECURSIVE Desc(_)
        Desc(S) == IF S = {} THEN <<>>
                   ELSE LET m == CHOOSE x \in S : \A y \in S \ {x} : StrLess(y, x)
                        IN  <<m>> \o Desc(S \ {m})
    IN  Desc(uncovered)

\* list(sorted(uncovered))
UncoveredList(uncovered) == Sorted(uncovered)

\* validate_coverage: the report it returns and what it leaves in self.errors
validate_coverage(reqs, self_errors, tcs) ==
    LET total == Len(reqs)
        covered_reqs == CoveredReqs(reqs, tcs)
        uncovered == UncoveredList(Uncovered(reqs, covered_reqs))
        covered == Cardinality(covered_reqs)
    IN  [report |->
            [total_requirements |-> total,
             covered_requirements |-> covered,
             total_test_cases |-> Len(tcs),
             system_test_cases |-> CountType(tcs, SYSTEM),
             software_test_cases |-> CountType(tcs, SOFTWARE),
             diagnostic_test_cases |-> CountType(tcs, DIAGNOSTIC),
             uncovered_requirements |-> uncovered,
             coverage_percentage |->
                 IF total > 0 THEN [num |-> covered * 100, den |-> total]
                 ELSE [num |-> 100, den |-> 1]],
         self_errors |-> self_errors \o
            [i \in 1..Len(uncovered) |->
                ValidationError(<<"N","/","A">>, "UNCOVERED_REQUIREMENT",
                                <<uncovered[i]>>, CRITICAL)]]

---------------------------------------------------------------------------
(* generator.py: the Step Synthesizer, the Traceability Builder and the    *)
(* Test Case Synthesizer.                                                  *)

DEFAULT_PRECONDITIONS ==
    << <<"E","C","M"," ","p","o","w","e","r","e","d"," ","O","N">>,
       <<"C","A","N"," ","b","u","s"," ","a","c","t","i","v","e"," ","a","t"," ","5","0","0","k","b","p","s">>,
       <<"D","i","a","g","n","o","s","t","i","c"," ","s","e","s","s","i","o","n"," ","0","x","1","0"," ","0","x","0","1"," ","(","D","e","f","a","u","l","t",")">> >>

DEFAULT_POSTCONDITIONS ==
    << <<"E","C","M"," ","r","e","s","e","t">>,
       <<"D","T","C","s"," ","c","l","e","a","r","e","d">> >>

DEFAULT_TEST_TOOLS == << <<"C","A","N","o","e">>, <<"I","N","C","A">>, <<"C","A","P","L">>, <<"P","y","t","h","o","n">> >>

\* int(s) for a string of digits
RECURSIVE ParseNat(_)
ParseNat(s) ==
    IF s = <<>> THEN 0
    ELSE 10 * ParseNat(SubSeq(s, 1, Len(s) - 1)) + (Ord[s[Len(s)]] - 48)

\* The end of the run of digits that starts at position i of s.
DigitRunEnd(s, i) == Max({k \in i..Len(s) : \A m \in i..k : IsDigit(s[m])})

\* The first position after position i of s that holds no white space.
SkipSpaces(s, i) == Min({k \in (i + 1)..(Len(s) + 1) : k = Len(s) + 1 \/ ~IsSpace(s[k])})

\* re.search(r'(\d+)\s*(?:ohm|ω|Ω)', desc, re.IGNORECASE): the starts of
\* the digit runs that white space and then the unit follow
OhmMatches(desc) ==
    {i \in 1..Len(desc) :
        /\ IsDigit(desc[i])
        /\ LET k == SkipSpaces(desc, DigitRunEnd(desc, i)) IN
           \/ OccursAt(Lower(desc), <<"o","h","m">>, k)
           \/ OccursAt(Lower(desc), <<"omega">>, k)}

\* threshold of _generate_test_steps with the default for every description.
ThresholdDefaultOnly(desc) == <<"1","0","0","0">>

\* threshold of _generate_test_steps
Threshold(desc) ==
    IF OhmMatches(desc) # {}
    THEN LET i == Min(OhmMatches(desc)) IN SubSeq(desc, i, DigitRunEnd(desc, i))
    ELSE <<"1","0","0","0">>

\* The steps of the water-resistance class.
WaterSteps(desc) ==
    LET ohms == StrInt(ParseNat(Threshold(desc)) - 200) IN
    << WIFTestStep(2, <<"S","e","t"," ","W","I","F","_","S","e","n","s","o","r","_","R","e","s","i","s","t","a","n","c","e"," ","="," ">> \o ohms \o <<" ","o","h","m","s"," ","v","i","a"," ","H","I","L">>,
                      <<"H","I","L"," ","c","o","n","f","i","r","m","s"," ","r","e","s","i","s","t","a","n","c","e"," ","s","e","t"," ","t","o"," ">> \o ohms \o <<" ","o","h","m","s">>),
       WIFTestStep(3, <<"W","a","i","t"," ","f","o","r"," ","d","e","b","o","u","n","c","e"," ","t","i","m","e"," ","(","2","0","0","m","s",")">>,
                      <<"T","i","m","e","r"," ","e","l","a","p","s","e","d",","," ","E","C","M"," ","p","r","o","c","e","s","s","i","n","g"," ","c","o","m","p","l","e","t","e">>),
       WIFTestStep(4, <<"R","e","a","d"," ","W","I","F","_","S","t","a","t","u","s"," ","v","i","a"," ","C","A","N"," ","d","i","a","g","n","o","s","t","i","c"," ","s","e","r","v","i","c","e"," ","0","x","2","2">>,
                      <<"W","I","F","_","S","t","a","t","u","s"," ","="," ","1"," ","(","W","a","t","e","r"," ","D","e","t","e","c","t","e","d",")">>) >>

\* The steps of the diagnostic class.
DtcSteps(req) ==
    LET dtc == IF Truthy(req.dtc_code) THEN req.dtc_code ELSE <<"P","2","4","2","F">> IN
    << WIFTestStep(2, <<"T","r","i","g","g","e","r"," ","f","a","u","l","t"," ","c","o","n","d","i","t","i","o","n"," ","a","s"," ","p","e","r"," ","r","e","q","u","i","r","e","m","e","n","t"," ","s","p","e","c","i","f","i","c","a","t","i","o","n">>,
                      <<"F","a","u","l","t"," ","c","o","n","d","i","t","i","o","n"," ","a","c","t","i","v","e",","," ","e","r","r","o","r"," ","c","o","u","n","t","e","r"," ","i","n","c","r","e","m","e","n","t","i","n","g">>),
       WIFTestStep(3, <<"R","e","a","d"," ","D","T","C"," ","s","t","a","t","u","s"," ","v","i","a"," ","s","e","r","v","i","c","e"," ","0","x","1","9"," ","0","2"," ">> \o dtc,
                      <<"D","T","C"," ">> \o dtc \o <<" ","s","t","a","t","u","s"," ","b","y","t","e"," ","="," ","0","x","2","F"," ","(","c","o","n","f","i","r","m","e","d",","," ","p","e","n","d","i","n","g",","," ","t","e","s","t"," ","f","a","i","l","e","d",")">>),
       WIFTestStep(4, <<"C","l","e","a","r"," ","D","T","C","s"," ","v","i","a"," ","s","e","r","v","i","c","e"," ","0","x","1","4"," ","F","F","F","F","F","F">>,
                      <<"P","o","s","i","t","i","v","e"," ","r","e","s","p","o","n","s","e"," ","0","x","5","4",","," ","D","T","C"," ","c","l","e","a","r","e","d">>) >>

\* The steps of the calibration class.
CalibrationSteps(req) ==
    LET cal_param == IF req.calibration_params # <<>> THEN req.calibration_params[1]
                     ELSE <<"C","A","L","_","W","I","F","_","P","a","r","a","m","e","t","e","r">> IN
    << WIFTestStep(2, <<"R","e","a","d"," ","c","u","r","r","e","n","t"," ","v","a","l","u","e"," ","o","f"," ">> \o cal_param \o <<" ","v","i","a"," ","A","2","L"," ","i","n","t","e","r","f","a","c","e">>,
                      cal_param \o <<" ","v","a","l","u","e"," ","="," ","e","x","p","e","c","t","e","d"," ","d","e","f","a","u","l","t"," ","(","p","e","r"," ","c","a","l","i","b","r","a","t","i","o","n"," ","s","p","e","c",")">>),
       WIFTestStep(3, <<"M","o","d","i","f","y"," ">> \o cal_param \o <<" ","t","o"," ","t","e","s","t"," ","v","a","l","u","e"," ","v","i","a"," ","I","N","C","A">>,
                      cal_param \o <<" ","u","p","d","a","t","e","d",","," ","c","h","a","n","g","e"," ","c","o","n","f","i","r","m","e","d"," ","v","i","a"," ","r","e","a","d","b","a","c","k">>) >>

\* The steps of the default class.
DefaultSteps ==
    << WIFTestStep(2, <<"C","o","n","f","i","g","u","r","e"," ","t","e","s","t"," ","c","o","n","d","i","t","i","o","n","s"," ","a","s"," ","s","p","e","c","i","f","i","e","d"," ","i","n"," ","r","e","q","u","i","r","e","m","e","n","t">>,
                      <<"T","e","s","t"," ","c","o","n","d","i","t","i","o","n","s"," ","e","s","t","a","b","l","i","s","h","e","d",","," ","s","y","s","t","e","m"," ","i","n"," ","e","x","p","e","c","t","e","d"," ","s","t","a","t","e">>),
       WIFTestStep(3, <<"E","x","e","c","u","t","e"," ","t","h","e"," ","b","e","h","a","v","i","o","r"," ","u","n","d","e","r"," ","t","e","s","t">>,
                      <<"S","y","s","t","e","m"," ","r","e","s","p","o","n","d","s"," ","w","i","t","h","i","n"," ","s","p","e","c","i","f","i","e","d"," ","t","i","m","e"," ","(","<"," ","1","0","0","m","s",")">>),
       WIFTestStep(4, <<"V","e","r","i","f","y"," ","s","y","s","t","e","m"," ","s","t","a","t","e"," ","m","a","t","c","h","e","s"," ","r","e","q","u","i","r","e","m","e","n","t">>,
                      <<"A","l","l"," ","o","u","t","p","u","t","s"," ","a","n","d"," ","f","l","a","g","s"," ","m","a","t","c","h"," ","e","x","p","e","c","t","e","d"," ","v","a","l","u","e","s"," ","p","e","r"," ","r","e","q","u","i","r","e","m","e","n","t">>) >>

\* The classification with the diagnostic class tried before the
\* water-resistance class.
StepClassDiagnosticFirst(req) ==
    LET desc == Lower(req.description) IN
    IF \/ Truthy(req.dtc_code)
       \/ Contains(desc, <<"d","t","c">>)
       \/ Contains(desc, <<"d","i","a","g","n","o","s","t","i","c">>) THEN "dtc"
    ELSE IF Contains(desc, <<"w","a","t","e","r">>) /\ Contains(desc, <<"r","e","s","i","s","t","a","n","c","e">>) THEN "water"
    ELSE IF \/ Contains(desc, <<"t","h","r","e","s","h","o","l","d">>)
            \/ Contains(desc, <<"c","a","l","i","b","r","a","t","i","o","n">>)
            \/ Contains(desc, <<"p","a","r","a","m","e","t","e","r">>) THEN "calibration"
    ELSE "default"

\* The class _generate_test_steps puts a requirement in, by first match.
StepClass(req) ==
    LET desc == Lower(req.description) IN
    IF Contains(desc, <<"w","a","t","e","r">>) /\ Contains(desc, <<"r","e","s","i","s","t","a","n","c","e">>) THEN "water"
    ELSE IF \/ Truthy(req.dtc_code)
            \/ Contains(desc, <<"d","t","c">>)
            \/ Contains(desc, <<"d","i","a","g","n","o","s","t","i","c">>) THEN "dtc"
    ELSE IF \/ Contains(desc, <<"t","h","r","e","s","h","o","l","d">>)
            \/ Contains(desc, <<"c","a","l","i","b","r","a","t","i","o","n">>)
            \/ Contains(desc, <<"p","a","r","a","m","e","t","e","r">>) THEN "calibration"
    ELSE "default"

\* _generate_test_steps
GenerateTestSteps(req) ==
    LET desc == Lower(req.description)
        class == StepClass(req)
        middle == IF class = "water" THEN WaterSteps(desc)
                  ELSE IF class = "dtc" THEN DtcSteps(req)
                  ELSE IF class = "calibration" THEN CalibrationSteps(req)
                  ELSE DefaultSteps
    IN  << WIFTestStep(1, <<"I","n","i","t","i","a","l","i","z","e"," ","E","C","M"," ","a","n","d"," ","e","s","t","a","b","l","i","s","h"," ","C","A","N"," ","c","o","m","m","u","n","i","c","a","t","i","o","n"," ","a","t"," ","5","0","0","k","b","p","s">>,
                          <<"E","C","M"," ","r","e","s","p","o","n","d","s"," ","t","o"," ","d","i","a","g","n","o","s","t","i","c"," ","r","e","q","u","e","s","t","s",","," ","C","A","N"," ","b","u","s"," ","s","t","a","t","u","s"," ","="," ","O","K">>) >>
        \o middle \o
        << WIFTestStep(Len(middle) + 2, <<"R","e","s","e","t"," ","E","C","M"," ","a","n","d"," ","v","e","r","i","f","y"," ","n","o"," ","r","e","s","i","d","u","a","l"," ","f","a","u","l","t","s">>,
                          <<"E","C","M"," ","r","e","s","e","t"," ","c","o","m","p","l","e","t","e",","," ","n","o"," ","D","T","C","s"," ","s","t","o","r","e","d",","," ","s","y","s","t","e","m"," ","i","n"," ","d","e","f","a","u","l","t"," ","s","t","a","t","e">>) >>

\* The traceability with the requirement's own reference only.
BuildTraceabilityOwnIdOnly(req) ==
    Traceability(IF req.req_type = SYSTEM THEN req.req_id ELSE None,
                 IF req.req_type = SOFTWARE THEN req.req_id ELSE None,
                 IF req.req_type = DIAGNOSTIC THEN req.req_id ELSE None,
                 None)

\* _build_traceability
BuildTraceability(req) ==
    LET system_req == IF req.req_type = SYSTEM THEN req.req_id
                      ELSE IF req.req_type = SOFTWARE /\ Truthy(req.parent_system_req)
                           THEN req.parent_system_req
                      ELSE None
        software_req == IF req.req_type = SOFTWARE THEN req.req_id ELSE None
        diagnostic_req == IF req.req_type = DIAGNOSTIC THEN req.req_id ELSE None
        a2l_reference ==
            IF req.calibration_params # <<>> THEN req.calibration_params[1]
            ELSE IF req.req_type = SYSTEM /\ HasDigit(req.req_id)
                 THEN <<"C","A","L","_","W","I","F","_","P","a","r","a","m","_">> \o FirstDigitRun(req.req_id)
            ELSE None
    IN  Traceability(system_req, software_req, diagnostic_req, a2l_reference)

\* The units of the pattern of _generate_pass_criteria, in its order.
Units == << <<"o","h","m">>, <<"m","s">>, <<"s">>, <<"v">>, <<"m","a">>, <<"%">>, <<"omega">> >>

\* re.search(r'(\d+(?:\.\d+)?)\s*(ohm|ms|s|v|ma|%|ω|Ω)?', desc, re.IGNORECASE)
\* on a text that holds a digit: groups 1 and 2 (None for no unit)
NumericMatch(desc) ==
    LET i == Min({k \in 1..Len(desc) : IsDigit(desc[k])})
        j == DigitRunEnd(desc, i)
        e == IF j + 2 <= Len(desc) /\ desc[j + 1] = "." /\ IsDigit(desc[j + 2])
             THEN DigitRunEnd(desc, j + 2) ELSE j
        k == SkipSpaces(desc, e)
        found == {u \in 1..Len(Units) : OccursAt(Lower(desc), Units[u], k)}
    IN  [value |-> SubSeq(desc, i, e),
         unit |-> IF found = {} THEN None ELSE Units[Min(found)]]

\* _generate_pass_criteria
GeneratePassCriteria(req) ==
    LET desc == Lower(req.description) IN
    IF Contains(desc, <<"w","a","t","e","r">>) /\ Contains(desc, <<"d","e","t","e","c","t">>)
    THEN <<"W","I","F","_","S","t","a","t","u","s"," ","f","l","a","g"," ","="," ","1"," ","w","h","e","n"," ","s","e","n","s","o","r"," ","r","e","s","i","s","t","a","n","c","e"," ","<"," ","t","h","r","e","s","h","o","l","d",";"," ","D","T","C"," ","P","2","4","2","F"," ","s","t","o","r","e","d"," ","w","i","t","h","i","n"," ","2","0","0","m","s"," ","o","f"," ","d","e","t","e","c","t","i","o","n">>
    ELSE IF Truthy(req.dtc_code)
    THEN <<"D","T","C"," ">> \o req.dtc_code \o <<" ","c","o","r","r","e","c","t","l","y"," ","s","e","t"," ","w","i","t","h"," ","s","t","a","t","u","s"," ","b","y","t","e"," ","0","x","2","F",";"," ","D","T","C"," ","c","l","e","a","r","e","d"," ","s","u","c","c","e","s","s","f","u","l","l","y"," ","o","n"," ","r","e","q","u","e","s","t">>
    ELSE IF HasDigit(desc)
    THEN LET m == NumericMatch(desc) IN
         <<"S","y","s","t","e","m"," ","o","p","e","r","a","t","e","s"," ","c","o","r","r","e","c","t","l","y"," ","w","i","t","h"," ","m","e","a","s","u","r","e","d"," ","v","a","l","u","e"," ","="," ">> \o m.value
         \o (IF m.unit = None THEN <<>> ELSE m.unit)
         \o <<";"," ","A","l","l"," ","o","u","t","p","u","t","s"," ","w","i","t","h","i","n"," ">> \o <<"PLUSMINUS">> \o <<"5","%"," ","t","o","l","e","r","a","n","c","e">>
    ELSE <<"R","e","q","u","i","r","e","m","e","n","t"," ","'">> \o req.req_id \o <<"'"," ","b","e","h","a","v","i","o","r"," ","v","e","r","i","f","i","e","d",";"," ","A","l","l"," ","t","e","s","t"," ","s","t","e","p","s"," ","p","a","s","s"," ","w","i","t","h"," ","e","x","p","e","c","t","e","d"," ","r","e","s","u","l","t","s">>

\* The two preconditions _create_test_case appends for a diagnostic test case.
DIAGNOSTIC_PRECONDITIONS ==
    << <<"E","x","t","e","n","d","e","d"," ","d","i","a","g","n","o","s","t","i","c"," ","s","e","s","s","i","o","n"," ","0","x","1","0"," ","0","x","0","3"," ","a","c","t","i","v","e">>,
       <<"N","o"," ","p","e","n","d","i","n","g"," ","D","T","C","s">> >>

\* DEFAULT_PRECONDITIONS.copy(), with two more for a diagnostic test case
Preconditions(tc_type) ==
    IF tc_type = DIAGNOSTIC
    THEN DEFAULT_PRECONDITIONS \o DIAGNOSTIC_PRECONDITIONS
    ELSE DEFAULT_PRECONDITIONS

\* _create_test_case with the safety level QM for every test case.
CreateTestCaseAsilQM(ctr, req, tc_type) ==
    LET r == GenerateTestCaseId(ctr, req.req_id, tc_type) IN
    [tc |-> [test_case_id |-> r.id,
             type |-> tc_type,
             requirement_id |-> req.req_id,
             requirement_description |-> req.description,
             test_objective |-> <<"V","e","r","i","f","y"," ","t","h","a","t"," ">> \o req.description,
             preconditions |-> Preconditions(tc_type),
             test_steps |-> GenerateTestSteps(req),
             postconditions |-> DEFAULT_POSTCONDITIONS,
             pass_criteria |-> GeneratePassCriteria(req),
             traceability |-> BuildTraceability(req),
             test_environment |-> HIL,
             test_tools |-> DEFAULT_TEST_TOOLS,
             asil_level |-> QM,
             dtc_code |-> req.dtc_code],
     ctr |-> r.ctr]

\* _create_test_case on the counters ctr: the test case and the counters left
CreateTestCase(ctr, req, tc_type) ==
    LET r == GenerateTestCaseId(ctr, req.req_id, tc_type) IN
    [tc |-> [test_case_id |-> r.id,
             type |-> tc_type,
             requirement_id |-> req.req_id,
             requirement_description |-> req.description,
             test_objective |-> <<"V","e","r","i","f","y"," ","t","h","a","t"," ">> \o req.description,
             preconditions |-> Preconditions(tc_type),
             test_steps |-> GenerateTestSteps(req),
             postconditions |-> DEFAULT_POSTCONDITIONS,
             pass_criteria |-> GeneratePassCriteria(req),
             traceability |-> BuildTraceability(req),
             test_environment |-> HIL,
             test_tools |-> DEFAULT_TEST_TOOLS,
             asil_level |-> req.asil_level,
             dtc_code |-> req.dtc_code],
     ctr |-> r.ctr]

\* The loop of generate_system_test_cases, generate_software_test_cases and
\* generate_diagnostic_test_cases over the requirements of one category:
\* the test cases created, in order, and the counters left.
RECURSIVE CreateAll(_, _, _, _)
CreateAll(ctr, reqs, tc_type, created) ==
    IF reqs = <<>> THEN [tests |-> created, ctr |-> ctr]
    ELSE LET r == CreateTestCase(ctr, Head(reqs), tc_type) IN
         CreateAll(r.ctr, Tail(reqs), tc_type, Append(created, r.tc))

\* The requirements of every category, whatever the category asked for.
OfTypeAny(reqs, tc_type) == reqs

\* {k: v for k, v in self.requirements.items() if v.req_type == tc_type}
OfType(reqs, tc_type) == SelectSeq(reqs, LAMBDA r : r.req_type = tc_type)

\* generate_*_test_cases: the test cases it returns and the counters left
GenerateTestCases(ctr, reqs, tc_type) == CreateAll(ctr, OfType(reqs, tc_type), tc_type, <<>>)

---------------------------------------------------------------------------
(* generator.py: loading the Requirement Store.  A sheet is its header row *)
(* and its rows of cells; an empty cell (NaN) is None.                     *)

\* str.strip()
Strip(s) ==
    IF \A k \in 1..Len(s) : IsSpace(s[k]) THEN <<>>
    ELSE LET first == CHOOSE k \in 1..Len(s) :
                          ~IsSpace(s[k]) /\ \A j \in 1..(k - 1) : IsSpace(s[j])
             last == CHOOSE k \in 1..Len(s) :
                          ~IsSpace(s[k]) /\ \A j \in (k + 1)..Len(s) : IsSpace(s[j])
         IN  SubSeq(s, first, last)

\* s.split(',')
RECURSIVE SplitComma(_)
SplitComma(s) ==
    LET commas == {k \in 1..Len(s) : s[k] = ","} IN
    IF commas = {} THEN <<s>>
    ELSE <<SubSeq(s, 1, Min(commas) - 1)>> \o SplitComma(SubSeq(s, Min(commas) + 1, Len(s)))

\* [p.strip() for p in cal_str.split(',') if p.strip()]
CalParams(cal_str) ==
    LET parts == SplitComma(cal_str)
        stripped == [i \in 1..Len(parts) |-> Strip(parts[i])]
    IN  SelectSeq(stripped, LAMBDA p : p # <<>>)

\* _parse_asil
ParseAsil(asil_str) ==
    LET key == Strip(Lower(asil_str)) IN
    IF key \in { <<"a","s","i","l","-","a">>, <<"a","s","i","l"," ","a">> } THEN ASIL_A
    ELSE IF key \in { <<"a","s","i","l","-","b">>, <<"a","s","i","l"," ","b">> } THEN ASIL_B
    ELSE IF key \in { <<"a","s","i","l","-","c">>, <<"a","s","i","l"," ","c">> } THEN ASIL_C
    ELSE IF key \in { <<"a","s","i","l","-","d">>, <<"a","s","i","l"," ","d">> } THEN ASIL_D
    ELSE IF key = <<"q","m">> THEN QM
    ELSE QM

\* df.columns.str.strip().str.lower()
NormalizeColumns(columns) == [i \in 1..Len(columns) |-> Lower(Strip(columns[i]))]

\* _find_column: the index of the first column that is one of the
\* candidates, 0 for None
FindColumn(columns, candidates) ==
    LET hits == {i \in 1..Len(columns) :
                    \E c \in 1..Len(candidates) :
                        Strip(Lower(columns[i])) = Lower(candidates[c])}
    IN  IF hits = {} THEN 0 ELSE Min(hits)

IdCandidates == << <<"r","e","q","_","i","d">>, <<"r","e","q","u","i","r","e","m","e","n","t","_","i","d">>, <<"i","d">>, <<"r","e","q"," ","i","d">> >>

DescCandidates == << <<"d","e","s","c","r","i","p","t","i","o","n">>, <<"r","e","q","u","i","r","e","m","e","n","t","_","d","e","s","c","r","i","p","t","i","o","n">>, <<"d","e","s","c">>, <<"t","e","x","t">> >>

AsilCandidates == << <<"a","s","i","l","_","l","e","v","e","l">>, <<"a","s","i","l">>, <<"s","a","f","e","t","y","_","l","e","v","e","l">>, <<"a","s","i","l"," ","l","e","v","e","l">> >>

ParentCandidates == << <<"p","a","r","e","n","t","_","s","y","s","t","e","m","_","r","e","q">>, <<"p","a","r","e","n","t">>, <<"p","a","r","e","n","t","_","r","e","q">>, <<"p","a","r","e","n","t"," ","s","y","s","t","e","m"," ","r","e","q">> >>

DtcCandidates == << <<"d","t","c","_","c","o","d","e">>, <<"d","t","c">>, <<"d","i","a","g","n","o","s","t","i","c","_","c","o","d","e">>, <<"d","t","c"," ","c","o","d","e">> >>

CalCandidates == << <<"c","a","l","i","b","r","a","t","i","o","n","_","p","a","r","a","m","s">>, <<"c","a","l","i","b","r","a","t","i","o","n">>, <<"a","2","l","_","p","a","r","a","m","s">>, <<"c","a","l"," ","p","a","r","a","m","s">> >>

ParamCandidates == << <<"p","a","r","a","m","e","t","e","r">>, <<"p","a","r","a","m","_","n","a","m","e">>, <<"n","a","m","e">>, <<"a","2","l","_","n","a","m","e">> >>

\* str(row[col]).strip() if col and pd.notna(row.get(col)) else default
Cell(row, col, default) ==
    IF col # 0 /\ row[col] # None THEN Strip(row[col]) ELSE default

\* The body of the loop of _load_sheet for one row: the store it leaves.
LoadRow(reqs, row, cols, req_type) ==
    LET req_id == Cell(row, cols.id, <<>>)
        description == Cell(row, cols.desc, <<>>)
    IN  IF req_id = <<>> \/ description = <<>> THEN reqs
        ELSE Put(reqs,
                 WIFRequirement(req_id, description, req_type,
                                ParseAsil(Cell(row, cols.asil, QM)),
                                Cell(row, cols.parent, None),
                                Cell(row, cols.dtc, None),
                                IF cols.cal # 0 /\ row[cols.cal] # None
                                THEN CalParams(row[cols.cal]) ELSE <<>>))

RECURSIVE LoadRows(_, _, _, _)
LoadRows(reqs, rows, cols, req_type) ==
    IF rows = <<>> THEN reqs
    ELSE LoadRows(LoadRow(reqs, Head(rows), cols, req_type), Tail(rows), cols, req_type)

\* _load_sheet: the columns it maps, on the normalized column names
FindColumns(columns) ==
    [id |-> FindColumn(columns, IdCandidates),
     desc |-> FindColumn(columns, DescCandidates),
     asil |-> FindColumn(columns, AsilCandidates),
     parent |-> FindColumn(columns, ParentCandidates),
     dtc |-> FindColumn(columns, DtcCandidates),
     cal |-> FindColumn(columns, CalCandidates)]

\* The name of column col is the name of another column too: row[name] is
\* then a Series and df[name] a DataFrame, not a cell and a column.
Repeated(columns, col) ==
    col # 0 /\ \E i \in 1..Len(columns) : i # col /\ columns[i] = columns[col]

\* _load_sheet raises ValueError: pd.notna(row[col]) of a Series has no
\* truth value.  For the identifier and the description column this is at
\* the first row; for an optional column at the first row that is accepted.
LoadSheetRaises(sheet) ==
    LET columns == NormalizeColumns(sheet.columns) IN
    /\ \E i, j \in 1..Len(columns) : i < j /\ columns[i] = columns[j]
    /\ \E cols \in {FindColumns(columns)} :
        /\ cols.id # 0
        /\ cols.desc # 0
        /\ \/ /\ sheet.rows # <<>>
              /\ Repeated(columns, cols.id) \/ Repeated(columns, cols.desc)
           \/ /\ \E i \in 1..Len(sheet.rows) :
                    /\ Cell(sheet.rows[i], cols.id, <<>>) # <<>>
                    /\ Cell(sheet.rows[i], cols.desc, <<>>) # <<>>
              /\ \/ Repeated(columns, cols.asil)
                 \/ Repeated(columns, cols.parent)
                 \/ Repeated(columns, cols.dtc)
                 \/ Repeated(columns, cols.cal)

\* _load_sheet: the store it leaves, also when it raises (no row is stored
\* before the row that raises)
LoadSheet(reqs, sheet, req_type) ==
    LET columns == NormalizeColumns(sheet.columns)
        cols == FindColumns(columns)
    IN  IF cols.id = 0 \/ cols.desc = 0 THEN reqs
        ELSE IF LoadSheetRaises(sheet) THEN reqs
        ELSE LoadRows(reqs, sheet.rows, cols, req_type)

\* _load_calibration_params: the names it adds.  Iterating the DataFrame of
\* a repeated column name gives the name itself.
LoadCalibrationParams(sheet) ==
    LET columns == NormalizeColumns(sheet.columns)
        col == FindColumn(columns, ParamCandidates)
    IN  IF col = 0 THEN {}
        ELSE IF Repeated(columns, col) THEN {Strip(columns[col])}
        ELSE {Strip(sheet.rows[i][col]) : i \in {k \in 1..Len(sheet.rows) : sheet.rows[k][col] # None}}

\* A sheet that the workbook does not hold.
Absent == [columns |-> <<>>, rows |-> <<>>, present |-> FALSE]

\* The part of _load_requirements that reads the sheets, from the category
\* sheets still to read: the store and the calibration names it leaves,
\* and whether it raised.  A sheet that raises ends the load: the later
\* sheets and the calibration sheet are not read.
RECURSIVE LoadSheets(_, _, _)
LoadSheets(reqs, sheets, calibration) ==
    IF sheets = <<>>
    THEN [requirements |-> reqs,
          a2l_parameters |-> IF calibration.present
                             THEN LoadCalibrationParams(calibration) ELSE {},
          raised |-> FALSE]
    ELSE IF ~Head(sheets).sheet.present
    THEN LoadSheets(reqs, Tail(sheets), calibration)
    ELSE IF LoadSheetRaises(Head(sheets).sheet)
    THEN [requirements |-> reqs, a2l_parameters |-> {}, raised |-> TRUE]
    ELSE LoadSheets(LoadSheet(reqs, Head(sheets).sheet, Head(sheets).req_type),
                    Tail(sheets), calibration)

\* The part of _load_requirements that reads the sheets of a workbook wb.
LoadRequirements(wb) ==
    LoadSheets(<<>>,
               << [sheet |-> wb.system, req_type |-> SYSTEM],
                  [sheet |-> wb.software, req_type |-> SOFTWARE],
                  [sheet |-> wb.diagnostic, req_type |-> DIAGNOSTIC] >>,
               wb.calibration)

---------------------------------------------------------------------------
(* generator.py: run(), the whole pipeline, one action per phase.          *)

\* The rows a sheet of the workbook may hold: the cells under the columns
\* of Headers, None for an empty cell.
RowWater ==
    << <<"S","Y","S","_","W","I","F","_","0","0","1">>, <<"D","e","t","e","c","t"," ","w","a","t","e","r"," ","i","n"," ","f","u","e","l"," ","w","h","e","n"," ","r","e","s","i","s","t","a","n","c","e"," ","i","s"," ","b","e","l","o","w"," ","1","0","0","0"," ","o","h","m","s">>,
       <<"A","S","I","L","-","A">>, None, None, None >>

RowSw ==
    << <<" ","S","W","_","W","I","F","_","0","0","2"," ">>, <<"D","e","b","o","u","n","c","e"," ","t","h","e"," ","W","I","F"," ","s","i","g","n","a","l">>,
       <<"a","s","i","l"," ","b">>, <<"S","Y","S","_","W","I","F","_","0","0","1">>, None, <<"C","A","L","_","W","I","F","_","T","h","r","e","s","h","o","l","d",","," ","C","A","L","_","W","I","F","_","P","a","r","a","m","_","0","0","1",",">> >>

RowDiag ==
    << <<"D","I","A","G","_","W","I","F","_","0","0","3">>, <<"S","e","t"," ","D","T","C"," ","w","h","e","n"," ","w","a","t","e","r"," ","i","s"," ","d","e","t","e","c","t","e","d">>,
       <<"Q","M">>, <<"S","Y","S","_","W","I","F","_","0","0","1">>, <<"P","2","4","2","E">>, None >>

RowBad ==
    << <<"R","E","Q","_","1","2","3","4">>, <<"L","a","m","p">>, <<"h","i","g","h">>, <<"S","Y","S","_","W","I","F","_","4","0","4">>, <<"X","Y","Z">>, <<"F","o","o">> >>

RowBlank ==
    << None, <<"T","e","x","t"," ","w","i","t","h","o","u","t"," ","a","n"," ","i","d">>, <<"A","S","I","L","-","A">>, None, None, None >>

RowPool == {RowWater, RowSw, RowDiag, RowBad, RowBlank}

Headers ==
    << <<"R","e","q","_","I","D">>, <<" ","D","e","s","c","r","i","p","t","i","o","n"," ">>, <<"A","S","I","L">>, <<"P","a","r","e","n","t","_","S","y","s","t","e","m","_","R","e","q">>,
       <<"D","T","C"," ","C","o","d","e">>, <<"C","a","l","i","b","r","a","t","i","o","n","_","P","a","r","a","m","s">> >>

HeadersNoId ==
    << <<"N","a","m","e">>, <<"T","e","x","t">>, <<"S","a","f","e","t","y","_","L","e","v","e","l">>, <<"P","a","r","e","n","t">>, <<"D","T","C">>, <<"C","a","l","i","b","r","a","t","i","o","n">> >>

\* Two columns whose names are equal once stripped and lower-cased, in the
\* place of the parent column. The Software sheet may have these headers.
HeadersTwoAsil ==
    << <<"R","e","q","_","I","D">>, <<" ","D","e","s","c","r","i","p","t","i","o","n"," ">>, <<"A","S","I","L">>, <<"a","s","i","l"," ">>, <<"D","T","C"," ","C","o","d","e">>, <<"C","a","l","i","b","r","a","t","i","o","n","_","P","a","r","a","m","s">> >>

HeaderPool == {Headers, HeadersNoId}

CalibrationSheet ==
    [columns |-> << <<"P","a","r","a","m","e","t","e","r">> >>,
     rows |-> << << <<"C","A","L","_","W","I","F","_","T","h","r","e","s","h","o","l","d">> >>, << <<" ","C","A","L","_","W","I","F","_","P","a","r","a","m","_","0","0","1"," ">> >>, << None >> >>,
     present |-> TRUE]

\* A calibration sheet with two columns whose names are equal once
\* stripped and lower-cased.
CalibrationTwoNames ==
    [columns |-> << <<"N","a","m","e">>, <<"N","A","M","E">> >>,
     rows |-> << << <<"C","A","L","_","W","I","F","_","T","h","r","e","s","h","o","l","d">>, <<"C","A","L","_","W","I","F","_","P","a","r","a","m","_","0","0","1">> >> >>,
     present |-> TRUE]

\* The calibration sheets of a workbook of n requirement rows; the sheet
\* with the repeated column comes with the workbooks of at most one row.
CalibrationPool(n) ==
    IF n <= 1 THEN {Absent, CalibrationSheet, CalibrationTwoNames}
    ELSE {Absent, CalibrationSheet}

\* The workbook before the file is read, and a path with no file behind it.
Unread == [file |-> "unread"]

NoFile == [file |-> "missing"]

Sheet(columns, rows) ==
    IF rows = <<>> THEN Absent ELSE [columns |-> columns, rows |-> rows, present |-> TRUE]

\* output_files of export_results when nothing fails: the artifacts in the
\* order they are written.
ExportPlan(tcs) ==
    (IF CountType(tcs, SYSTEM) > 0 THEN <<"system_json">> ELSE <<>>)
    \o (IF CountType(tcs, SOFTWARE) > 0 THEN <<"software_json">> ELSE <<>>)
    \o (IF CountType(tcs, DIAGNOSTIC) > 0 THEN <<"diagnostic_json">> ELSE <<>>)
    \o <<"traceability_matrix">>

Range(s) == {s[i] : i \in 1..Len(s)}

CountReqType(reqs, req_type) == Cardinality({i \in 1..Len(reqs) : reqs[i].req_type = req_type})

\* The checklist without the look at the output files.
ChecklistIgnoresFiles(tcs, reqs, ok, errs, report, files, existing) ==
    /\ ok
    /\ is_complete(report)

\* run(): the checklist, all_passed
Checklist(tcs, reqs, ok, errs, report, files, existing) ==
    /\ CountType(tcs, SYSTEM) > 0 \/ CountReqType(reqs, SYSTEM) = 0
    /\ CountType(tcs, SOFTWARE) > 0 \/ CountReqType(reqs, SOFTWARE) = 0
    /\ CountType(tcs, DIAGNOSTIC) > 0 \/ CountReqType(reqs, DIAGNOSTIC) = 0
    /\ ok
    /\ ok
    /\ is_complete(report)
    /\ CriticalErrors(errs) = <<>>
    /\ \A p \in Range(files) : p \in existing

\* run(): all_passed and coverage.is_complete()
RunResult(tcs, reqs, ok, errs, report, files, existing) ==
    Checklist(tcs, reqs, ok, errs, report, files, existing) /\ is_complete(report)

AllocsOf(tcs) ==
    [i \in 1..Len(tcs) |->
        [req_id |-> tcs[i].requirement_id, tc_type |-> tcs[i].type, id |-> tcs[i].test_case_id]]

Init ==
    /\ sys_counter = EmptyDict
    /\ sw_counter = EmptyDict
    /\ diag_counter = EmptyDict
    /\ allocs = <<>>
    /\ requirements = <<>>
    /\ a2l_parameters = {}
    /\ v_errors = <<>>
    /\ v_op = "none"
    /\ v_in = <<>>
    /\ v_valid = TRUE
    /\ v_ret = <<>>
    /\ v_report = CoverageReport
    /\ pc = "start"
    /\ workbook = Unread
    /\ test_cases = <<>>
    /\ validator = FALSE
    /\ run_is_valid = TRUE
    /\ run_errors = <<>>
    /\ run_coverage = CoverageReport
    /\ output_files = <<>>
    /\ fs = {}
    /\ removed = 0
    /\ result = "none"
    /\ SynIdle
    /\ RaceIdle
    /\ RuleIdle
    /\ ParseIdle
    /\ SeqIdle

\* The load phase without the return on an empty store.
LoadNoEarlyReturn(wb) ==
    /\ pc = "start"
    /\ workbook' = wb
    /\ \E r \in {LoadRequirements(wb)} :
        /\ requirements' = r.requirements
        /\ a2l_parameters' = r.a2l_parameters
        /\ IF r.raised
           THEN pc' = "done" /\ result' = "False"
           ELSE pc' = "loaded" /\ result' = result
    /\ UNCHANGED <<auxVars, genVars, valVars, test_cases, validator, run_is_valid, run_errors,
                   run_coverage, output_files, fs, removed>>

\* run(): _load_requirements on the workbook wb, the return when it raised
\* (run() catches the exception) and the return when nothing was loaded.
Load(wb) ==
    /\ pc = "start"
    /\ workbook' = wb
    /\ \E r \in {LoadRequirements(wb)} :
        /\ requirements' = r.requirements
        /\ a2l_parameters' = r.a2l_parameters
        /\ IF r.raised \/ r.requirements = <<>>
           THEN pc' = "done" /\ result' = "False"
           ELSE pc' = "loaded" /\ result' = result
    /\ UNCHANGED <<auxVars, genVars, valVars, test_cases, validator, run_is_valid, run_errors,
                   run_coverage, output_files, fs, removed>>

\* run(): _load_requirements raises (no file at the path), run() catches it.
LoadRaises ==
    /\ pc = "start"
    /\ workbook' = NoFile
    /\ pc' = "done"
    /\ result' = "False"
    /\ UNCHANGED <<auxVars, genVars, valVars, requirements, a2l_parameters, test_cases, validator,
                   run_is_valid, run_errors, run_coverage, output_files, fs, removed>>

\* generate_system_test_cases, generate_software_test_cases,
\* generate_diagnostic_test_cases
Generate(tc_type, from, to) ==
    /\ pc = from
    /\ \E r \in {GenerateTestCases(Counters, requirements, tc_type)} :
        /\ sys_counter' = r.ctr.sys
        /\ sw_counter' = r.ctr.sw
        /\ diag_counter' = r.ctr.diag
        /\ test_cases' = test_cases \o r.tests
        /\ allocs' = allocs \o AllocsOf(r.tests)
    /\ pc' = to
    /\ UNCHANGED <<auxVars, valVars, requirements, a2l_parameters, workbook, validator, run_is_valid,
                   run_errors, run_coverage, output_files, fs, removed, result>>

GenerateSystem == Generate(SYSTEM, "loaded", "system")

GenerateSoftware == Generate(SOFTWARE, "system", "software")

GenerateDiagnostic == Generate(DIAGNOSTIC, "software", "diagnostic")

\* validate_all_test_cases
ValidateAllTestCases ==
    /\ pc = "diagnostic"
    /\ validator' = TRUE
    /\ \E r \in {validate_all(requirements, a2l_parameters,
                             IF validator THEN v_errors ELSE <<>>, test_cases)} :
        /\ v_errors' = r.self_errors
        /\ run_is_valid' = r.all_valid
        /\ run_errors' = r.errors
    /\ pc' = "validated"
    /\ UNCHANGED <<auxVars, genVars, v_op, v_in, v_valid, v_ret, v_report, requirements, a2l_parameters,
                   workbook, test_cases, run_coverage, output_files, fs, removed, result>>

\* validate_coverage of the generator
ValidateCoverage ==
    /\ pc = "validated"
    /\ validator' = TRUE
    /\ \E r \in {validate_coverage(requirements, IF validator THEN v_errors ELSE <<>>,
                                   test_cases)} :
        /\ v_errors' = r.self_errors
        /\ run_coverage' = r.report
    /\ pc' = "covered"
    /\ UNCHANGED <<auxVars, genVars, v_op, v_in, v_valid, v_ret, v_report, requirements, a2l_parameters,
                   workbook, test_cases, run_is_valid, run_errors, output_files, fs, removed,
                   result>>

\* export_results that also resets the identifier counters.
ExportResultsResetsCounters(fail_at, partial) ==
    /\ pc = "covered"
    /\ LET plan == ExportPlan(test_cases)
           written == IF fail_at = 0 THEN plan ELSE SubSeq(plan, 1, fail_at - 1)
           r == validate_coverage(requirements, v_errors, test_cases)
       IN  /\ fail_at \in 0..Len(plan)
           /\ fail_at = 0 => ~partial
           /\ fs' = fs \cup Range(written)
                      \cup (IF partial THEN {plan[fail_at]} ELSE {})
           /\ v_errors' = IF fail_at \in {0, Len(plan)} THEN r.self_errors ELSE v_errors
           /\ IF fail_at = 0
              THEN output_files' = plan /\ pc' = "exported" /\ result' = result
              ELSE output_files' = output_files /\ pc' = "done" /\ result' = "False"
    /\ sys_counter' = EmptyDict /\ sw_counter' = EmptyDict /\ diag_counter' = EmptyDict
    /\ UNCHANGED <<auxVars, allocs, v_op, v_in, v_valid, v_ret, v_report, requirements, a2l_parameters,
                   workbook, test_cases, validator, run_is_valid, run_errors, run_coverage,
                   removed>>

\* export_results: every artifact is written (fail_at = 0), or the write of
\* artifact number fail_at raises and run() catches it.  The write that
\* raises leaves no file (the open fails) or a file written in part (the
\* file is open when the write fails).  The summary sheet of the matrix
\* calls validate_coverage once more before the matrix is saved.
ExportResults(fail_at, partial) ==
    /\ pc = "covered"
    /\ LET plan == ExportPlan(test_cases)
           written == IF fail_at = 0 THEN plan ELSE SubSeq(plan, 1, fail_at - 1)
           r == validate_coverage(requirements, v_errors, test_cases)
       IN  /\ fail_at \in 0..Len(plan)
           /\ fail_at = 0 => ~partial
           /\ fs' = fs \cup Range(written)
                      \cup (IF partial THEN {plan[fail_at]} ELSE {})
           /\ v_errors' = IF fail_at \in {0, Len(plan)} THEN r.self_errors ELSE v_errors
           /\ IF fail_at = 0
              THEN output_files' = plan /\ pc' = "exported" /\ result' = result
              ELSE output_files' = output_files /\ pc' = "done" /\ result' = "False"
    /\ UNCHANGED <<auxVars, genVars, v_op, v_in, v_valid, v_ret, v_report, requirements, a2l_parameters,
                   workbook, test_cases, validator, run_is_valid, run_errors, run_coverage,
                   removed>>

\* The environment removes a written file before the checklist looks.
FileRemoved(p) ==
    /\ pc = "exported"
    /\ removed < MaxRemovals
    /\ p \in fs
    /\ fs' = fs \ {p}
    /\ removed' = removed + 1
    /\ UNCHANGED <<auxVars, genVars, valVars, requirements, a2l_parameters, workbook, test_cases,
                   validator, run_is_valid, run_errors, run_coverage, output_files, pc, result>>

\* run(): the final checklist and the return value
FinalChecklist ==
    /\ pc = "exported"
    /\ result' = IF RunResult(test_cases, requirements, run_is_valid, run_errors, run_coverage,
                              output_files, fs)
                 THEN "True" ELSE "False"
    /\ pc' = "done"
    /\ UNCHANGED <<auxVars, genVars, valVars, requirements, a2l_parameters, workbook, test_cases,
                   validator, run_is_valid, run_errors, run_coverage, output_files, fs, removed>>

\* wif_testcase_generator.py main(): the exit status
ExitStatus(res) == IF res = "True" THEN 0 ELSE 1

Workbooks(n1, n2, n3) ==
    {[file |-> "read", system |-> Sheet(h1, r1), software |-> Sheet(h2, r2),
      diagnostic |-> Sheet(h3, r3), calibration |-> cal] :
        h1 \in IF n1 = 0 THEN {Headers} ELSE HeaderPool,
        h2 \in IF n2 = 0 THEN {Headers} ELSE HeaderPool \cup {HeadersTwoAsil},
        h3 \in IF n3 = 0 THEN {Headers} ELSE HeaderPool,
        r1 \in [1..n1 -> RowPool], r2 \in [1..n2 -> RowPool], r3 \in [1..n3 -> RowPool],
        cal \in CalibrationPool(n1 + n2 + n3)}

Next ==
    \/ /\ pc = "start"
       /\ \E n1 \in 0..MaxRows : \E n2 \in 0..(MaxRows - n1) : \E n3 \in 0..(MaxRows - n1 - n2) :
            \E wb \in Workbooks(n1, n2, n3) : Load(wb)
    \/ LoadRaises
    \/ GenerateSystem
    \/ GenerateSoftware
    \/ GenerateDiagnostic
    \/ ValidateAllTestCases
    \/ ValidateCoverage
    \/ \E fail_at \in 0..4 : \E partial \in BOOLEAN : ExportResults(fail_at, partial)
    \/ \E p \in fs : FileRemoved(p)
    \/ FinalChecklist

Spec == Init /\ [][Next]_vars

---------------------------------------------------------------------------
(* The allocator under arbitrary calls.                                    *)

\* Requirement identifiers the allocator is called with: with a WIF_NNN
\* part, with a WIF_ part followed by a longer digit run, with a short and
\* a long digit run elsewhere, with two digit runs, and with no digit.
AllocReqIds ==
    { <<"S","Y","S","_","W","I","F","_","0","0","1">>,
      <<"S","Y","S","_","W","I","F","_","0","0","1","0">>,
      <<"R","E","Q","_","7">>,
      <<"R","E","Q","_","1","2","3","4">>,
      <<"A","B","C">>,
      <<"X","1","2","Y","3","4","5">> }

InitAlloc ==
    /\ sys_counter = EmptyDict
    /\ sw_counter = EmptyDict
    /\ diag_counter = EmptyDict
    /\ allocs = <<>>
    /\ requirements = <<>>
    /\ a2l_parameters = {}
    /\ v_errors = <<>>
    /\ v_op = "none"
    /\ v_in = <<>>
    /\ v_valid = TRUE
    /\ v_ret = <<>>
    /\ v_report = CoverageReport
    /\ pc = "idle"
    /\ workbook = Unread
    /\ test_cases = <<>>
    /\ validator = FALSE
    /\ run_is_valid = TRUE
    /\ run_errors = <<>>
    /\ run_coverage = CoverageReport
    /\ output_files = <<>>
    /\ fs = {}
    /\ removed = 0
    /\ result = "none"
    /\ SynIdle
    /\ RaceIdle
    /\ RuleIdle
    /\ ParseIdle
    /\ SeqIdle

\* One call of _generate_test_case_id(req_id, tc_type).
Allocate(req_id, tc_type) ==
    /\ Len(allocs) < MaxAllocs
    /\ LET r == GenerateTestCaseId(Counters, req_id, tc_type) IN
        /\ sys_counter' = r.ctr.sys
        /\ sw_counter' = r.ctr.sw
        /\ diag_counter' = r.ctr.diag
        /\ allocs' = Append(allocs, [req_id |-> req_id, tc_type |-> tc_type, id |-> r.id])
    /\ UNCHANGED <<auxVars, requirements, a2l_parameters, valVars, runVars>>

NextAlloc == \E req_id \in AllocReqIds, tc_type \in RequirementType : Allocate(req_id, tc_type)

SpecAlloc == InitAlloc /\ [][NextAlloc]_vars

---------------------------------------------------------------------------
(* The validator on a fresh TestCaseValidator: one call of                 *)
(* validate_test_case, validate_all or validate_coverage.                  *)

\* WIFTestCase, with the fields the validator does not read at their defaults
ValTestCase(test_case_id, type, requirement_id, asil_level, dtc_code, traceability, test_steps, pass_criteria) ==
    [test_case_id |-> test_case_id, type |-> type, requirement_id |-> requirement_id,
     requirement_description |-> <<"x">>, test_objective |-> <<"x">>,
     preconditions |-> <<>>, test_steps |-> test_steps, postconditions |-> <<>>,
     pass_criteria |-> pass_criteria, traceability |-> traceability,
     test_environment |-> HIL, test_tools |-> <<>>,
     asil_level |-> asil_level, dtc_code |-> dtc_code]

SYS_WIF_001 == <<"S","Y","S","_","W","I","F","_","0","0","1">>
SW_WIF_002 == <<"S","W","_","W","I","F","_","0","0","2">>
DIAG_WIF_003 == <<"D","I","A","G","_","W","I","F","_","0","0","3">>
REQ_9 == <<"R","E","Q","_","9">>
CAL_WIF_Threshold == <<"C","A","L","_","W","I","F","_","T","h","r","e","s","h","o","l","d">>

\* The requirements of the stores the validator is constructed with.
ValSys == WIFRequirement(SYS_WIF_001, <<"x">>, SYSTEM, ASIL_A, None, None, <<>>)

ValSw == WIFRequirement(SW_WIF_002, <<"x">>, SOFTWARE, QM, SYS_WIF_001, None, <<CAL_WIF_Threshold>>)

ValSwNoParent == WIFRequirement(SW_WIF_002, <<"x">>, SOFTWARE, QM, None, None, <<>>)

ValDiag == WIFRequirement(DIAG_WIF_003, <<"x">>, DIAGNOSTIC, ASIL_A, None, <<"P","2","4","2","E">>, <<>>)

\* The stores the validator is constructed with: empty, one requirement of
\* each category (the Software one with a parent), and two requirements
\* (the Software one without a parent).
ValStores == { <<>>, <<ValSys, ValSw, ValDiag>>, <<ValSys, ValSwNoParent>> }

\* The calibration-name sets the validator is constructed with.
ValA2lSets == { {}, {CAL_WIF_Threshold} }

ValIds ==
    { <<"T","C","_","S","Y","S","_","S","Y","S","_","W","I","F","_","0","0","1","_","0","0","1">>,
      <<"T","C","_","S","W","_","S","W","_","W","I","F","_","0","0","2","_","0","0","1">>,
      <<"T","C","_","D","I","A","G","_","D","I","A","G","_","W","I","F","_","0","0","3","_","0","0","1">>,
      <<"T","C","_","S","Y","S","_","S","Y","S","_","W","I","F","_","1","2","3","4","_","0","0","1">> }

ValReqIds == {SYS_WIF_001, SW_WIF_002, DIAG_WIF_003, REQ_9}

ValDtcs == {None, <<"P","2","4","2","E">>, <<"P","2","4">>}

ValA2lRefs == {None, CAL_WIF_Threshold, <<"C","A","L","_","W","I","F","_","R","OMEGA">>, <<"W","I","F","_","T","h","r","e","s","h","o","l","d">>, CAL_WIF_}

ValTraces ==
    { Traceability(s, w, d, a) :
        s \in {None, SYS_WIF_001}, w \in {None, SW_WIF_002},
        d \in {None, DIAG_WIF_003}, a \in ValA2lRefs }

FullTrace == Traceability(SYS_WIF_001, SW_WIF_002, DIAG_WIF_003, None)

NoTrace == Traceability(None, None, None, None)

ValActions == { <<"R","e","a","d"," ","W","I","F","_","S","t","a","t","u","s">>, <<"C","h","e","c","k">> }

ValExpected ==
    { <<"P","A","S","S">>,
      <<"W","I","F","_","S","t","a","t","u","s"," ","="," ","1">>,
      <<"a","s"," ","e","x","p","e","c","t","e","d">>,
      <<"T","i","m","e","r"," ","e","l","a","p","s","e","d">>,
      <<"R","e","a","d","s"," ","T","R","U","E">> }

\* The step lists of at most MaxSteps steps, numbered from 1.
ValStepLists ==
    UNION { { [i \in 1..n |-> WIFTestStep(i, a[i], e[i])] :
                a \in [1..n -> ValActions], e \in [1..n -> ValExpected] } :
            n \in 0..MaxSteps }

GoodSteps == <<WIFTestStep(1, <<"R","e","a","d"," ","W","I","F","_","S","t","a","t","u","s">>, <<"W","I","F","_","S","t","a","t","u","s"," ","="," ","1">>)>>

PassOnlySteps == <<WIFTestStep(1, <<"R","e","a","d"," ","W","I","F","_","S","t","a","t","u","s">>, <<"P","A","S","S">>)>>

GoodPass == <<"S","t","a","t","u","s"," ","f","l","a","g"," ","="," ","1"," ","w","i","t","h","i","n"," ","2","0","0","m","s">>

ValPassCriteria == { <<>>, <<"O","K">>, GoodPass }

\* The test case _create_test_case makes on a fresh generator for each
\* requirement of the three-requirement store, as made and with one of its
\* traceability references removed by hand.
ValSynthesized ==
    UNION { LET tc == CreateTestCase([sys |-> EmptyDict, sw |-> EmptyDict, diag |-> EmptyDict],
                                     req, req.req_type).tc
            IN  { tc,
                  [tc EXCEPT !.traceability.system_req = None],
                  [tc EXCEPT !.traceability.software_req = None],
                  [tc EXCEPT !.traceability.diagnostic_req = None] } :
            req \in {ValSys, ValSw, ValDiag} }

\* The test cases validate_test_case is called with: every combination of
\* identifier, category, requirement reference, safety level and trouble
\* code; every traceability record for every category and requirement
\* reference; every step list; and the synthesized test cases.
ValTestCases ==
    { ValTestCase(id, type, req, asil, dtc, tr, st, crit) :
        id \in ValIds, type \in RequirementType, req \in ValReqIds,
        asil \in {ASIL_A, QM}, dtc \in ValDtcs, tr \in {FullTrace, NoTrace},
        st \in {GoodSteps, <<>>}, crit \in {GoodPass, <<"O","K">>} }
    \cup
    { ValTestCase(Prefix(type) \o <<"_","0","0","1","_","0","0","1">>, type, req, ASIL_A, None, tr, GoodSteps, GoodPass) :
        type \in RequirementType, req \in ValReqIds, tr \in ValTraces }
    \cup
    { ValTestCase(<<"T","C","_","S","Y","S","_","S","Y","S","_","W","I","F","_","0","0","1","_","0","0","1">>, SYSTEM, SYS_WIF_001, ASIL_A, None, FullTrace, st, crit) :
        st \in ValStepLists, crit \in ValPassCriteria }
    \cup ValSynthesized

\* The test cases the lists given to validate_all and validate_coverage are
\* made of: a valid one for each of two requirements, a second one for the
\* first requirement, one with a warning only, one with CRITICAL errors,
\* and one for a requirement that is in no store.
ValListCases ==
    { ValTestCase(<<"T","C","_","S","Y","S","_","S","Y","S","_","W","I","F","_","0","0","1","_","0","0","1">>, SYSTEM, SYS_WIF_001, ASIL_A, None, FullTrace, GoodSteps, GoodPass),
      ValTestCase(<<"T","C","_","S","Y","S","_","S","Y","S","_","W","I","F","_","0","0","1","_","0","0","2">>, SYSTEM, SYS_WIF_001, ASIL_A, None, FullTrace, PassOnlySteps, GoodPass),
      ValTestCase(<<"T","C","_","S","W","_","S","W","_","W","I","F","_","0","0","2","_","0","0","1">>, SOFTWARE, SW_WIF_002, QM, None, FullTrace, GoodSteps, GoodPass),
      ValTestCase(<<"T","C","_","D","I","A","G","_","D","I","A","G","_","W","I","F","_","0","0","3","_","0","0","1">>, DIAGNOSTIC, DIAG_WIF_003, QM, <<"P","2","4">>, NoTrace, <<>>, GoodPass),
      ValTestCase(<<"T","C","_","S","Y","S","_","S","Y","S","_","W","I","F","_","0","0","1","_","0","0","1">>, SYSTEM, REQ_9, ASIL_A, None, FullTrace, GoodSteps, GoodPass) }

ValLists == UNION { [1..n -> ValListCases] : n \in 0..MaxBatch }

InitValidate ==
    /\ requirements \in ValStores
    /\ a2l_parameters \in ValA2lSets
    /\ v_errors = <<>>
    /\ v_op = "none"
    /\ v_in = <<>>
    /\ v_valid = TRUE
    /\ v_ret = <<>>
    /\ v_report = CoverageReport
    /\ sys_counter = EmptyDict
    /\ sw_counter = EmptyDict
    /\ diag_counter = EmptyDict
    /\ allocs = <<>>
    /\ pc = "idle"
    /\ workbook = Unread
    /\ test_cases = <<>>
    /\ validator = TRUE
    /\ run_is_valid = TRUE
    /\ run_errors = <<>>
    /\ run_coverage = CoverageReport
    /\ output_files = <<>>
    /\ fs = {}
    /\ removed = 0
    /\ result = "none"
    /\ SynIdle
    /\ RaceIdle
    /\ RuleIdle
    /\ ParseIdle
    /\ SeqIdle

\* validator.validate_test_case(tc)
CallValidateTestCase(tc) ==
    /\ v_op = "none"
    /\ LET r == validate_test_case(requirements, a2l_parameters, v_errors, tc) IN
        /\ v_errors' = r.self_errors
        /\ v_valid' = r.is_valid
        /\ v_ret' = r.errors
    /\ v_op' = "validate_test_case"
    /\ v_in' = <<tc>>
    /\ UNCHANGED <<auxVars, requirements, a2l_parameters, v_report, genVars, runVars>>

\* validator.validate_all(test_cases)
CallValidateAll(tcs) ==
    /\ v_op = "none"
    /\ LET r == validate_all(requirements, a2l_parameters, v_errors, tcs) IN
        /\ v_errors' = r.self_errors
        /\ v_valid' = r.all_valid
        /\ v_ret' = r.errors
    /\ v_op' = "validate_all"
    /\ v_in' = tcs
    /\ UNCHANGED <<auxVars, requirements, a2l_parameters, v_report, genVars, runVars>>

\* validator.validate_coverage(test_cases)
CallValidateCoverage(tcs) ==
    /\ v_op = "none"
    /\ LET r == validate_coverage(requirements, v_errors, tcs) IN
        /\ v_errors' = r.self_errors
        /\ v_report' = r.report
    /\ v_op' = "validate_coverage"
    /\ v_in' = tcs
    /\ UNCHANGED <<auxVars, requirements, a2l_parameters, v_valid, v_ret, genVars, runVars>>

NextValidate ==
    /\ v_op = "none"
    /\ \/ \E tc \in ValTestCases : CallValidateTestCase(tc)
       \/ \E tcs \in ValLists : CallValidateAll(tcs)
       \/ \E tcs \in ValLists : CallValidateCoverage(tcs)

SpecValidate == InitValidate /\ [][NextValidate]_vars

---------------------------------------------------------------------------
(* One validator over a sequence of calls: validate_test_case,            *)
(* validate_all, validate_coverage and clear_errors in any order.         *)

\* The test cases of the calls: the ones of ValListCases that get errors.
SeqCases == {tc \in ValListCases : tc.test_steps # GoodSteps}

SeqLists == UNION { [1..n -> SeqCases] : n \in 0..MaxSeqBatch }

\* validator.validate_test_case(tc), after any calls
SeqValidateTestCase(tc) ==
    /\ v_calls < MaxCalls
    /\ \E r \in {validate_test_case(requirements, a2l_parameters, v_errors, tc)} :
        /\ v_errors' = r.self_errors
        /\ v_valid' = r.is_valid
        /\ v_ret' = r.errors
    /\ v_op' = "validate_test_case"
    /\ v_in' = <<tc>>
    /\ v_calls' = v_calls + 1
    /\ UNCHANGED <<synVars, raceVars, ruleVars, parseVars, requirements, a2l_parameters,
                   v_report, genVars, runVars>>

\* validator.validate_all(test_cases), after any calls
SeqValidateAll(tcs) ==
    /\ v_calls < MaxCalls
    /\ \E r \in {validate_all(requirements, a2l_parameters, v_errors, tcs)} :
        /\ v_errors' = r.self_errors
        /\ v_valid' = r.all_valid
        /\ v_ret' = r.errors
    /\ v_op' = "validate_all"
    /\ v_in' = tcs
    /\ v_calls' = v_calls + 1
    /\ UNCHANGED <<synVars, raceVars, ruleVars, parseVars, requirements, a2l_parameters,
                   v_report, genVars, runVars>>

\* validator.validate_coverage(test_cases), after any calls
SeqValidateCoverage(tcs) ==
    /\ v_calls < MaxCalls
    /\ \E r \in {validate_coverage(requirements, v_errors, tcs)} :
        /\ v_errors' = r.self_errors
        /\ v_report' = r.report
    /\ v_op' = "validate_coverage"
    /\ v_in' = tcs
    /\ v_calls' = v_calls + 1
    /\ UNCHANGED <<synVars, raceVars, ruleVars, parseVars, requirements, a2l_parameters,
                   v_valid, v_ret, genVars, runVars>>

\* validator.clear_errors()
ClearErrors ==
    /\ v_calls < MaxCalls
    /\ v_errors' = <<>>
    /\ v_op' = "clear_errors"
    /\ v_in' = <<>>
    /\ v_calls' = v_calls + 1
    /\ UNCHANGED <<synVars, raceVars, ruleVars, parseVars, requirements, a2l_parameters,
                   v_valid, v_ret, v_report, genVars, runVars>>

NextValidateSeq ==
    \/ \E tc \in SeqCases : SeqValidateTestCase(tc)
    \/ \E tcs \in SeqLists : SeqValidateAll(tcs)
    \/ \E tcs \in SeqLists : SeqValidateCoverage(tcs)
    \/ ClearErrors

SpecValidateSeq == InitValidate /\ [][NextValidateSeq]_vars

---------------------------------------------------------------------------
(* The synthesizer on a loaded store: _create_test_case for each           *)
(* requirement once, in any order, then validate_all on the test cases.    *)
(* The lists of a test case are objects of the heap, as list.copy() and    *)
(* list.append() make and change them.                                     *)

\* No copy: the object obj itself.
CopyListAlias(h, obj) == [heap |-> h, ref |-> obj]

\* list.copy(): a new object with the elements of object obj
CopyList(h, obj) == [heap |-> Append(h, h[obj]), ref |-> Len(h) + 1]

\* list.append(x) on object ref
AppendTo(h, ref, x) == [h EXCEPT ![ref] = Append(@, x)]

\* The objects of the class attributes DEFAULT_PRECONDITIONS,
\* DEFAULT_POSTCONDITIONS and DEFAULT_TEST_TOOLS.
PreconditionsObj == 1

PostconditionsObj == 2

TestToolsObj == 3

\* The list arguments of WIFTestCase(...) in _create_test_case and the two
\* appends for a diagnostic test case: the heap left and the three objects
\* of the test case.
CreateLists(h, tc_type) ==
    LET pre == CopyList(h, PreconditionsObj)
        post == CopyList(pre.heap, PostconditionsObj)
        tools == CopyList(post.heap, TestToolsObj)
        h1 == IF tc_type = DIAGNOSTIC
              THEN AppendTo(AppendTo(tools.heap, pre.ref, DIAGNOSTIC_PRECONDITIONS[1]),
                            pre.ref, DIAGNOSTIC_PRECONDITIONS[2])
              ELSE tools.heap
    IN  [heap |-> h1,
         lists |-> [preconditions |-> pre.ref, postconditions |-> post.ref, test_tools |-> tools.ref]]

SynWater == WIFRequirement(SYS_WIF_001, <<"T","h","e"," ","E","C","M"," ","s","h","a","l","l"," ","d","e","t","e","c","t"," ","w","a","t","e","r"," ","i","n"," ","f","u","e","l"," ","w","h","e","n"," ","s","e","n","s","o","r"," ","r","e","s","i","s","t","a","n","c","e"," ","i","s"," ","b","e","l","o","w"," ","1","0","0","0"," ","o","h","m","s">>, SYSTEM, ASIL_A, None, None, <<<<"C","A","L","_","W","I","F","_","R","e","s","i","s","t","a","n","c","e","_","T","h","r","e","s","h","o","l","d">>>>)

SynWaterNoThreshold == WIFRequirement(<<"R","E","Q","_","1">>, <<"W","a","t","e","r"," ","r","e","s","i","s","t","a","n","c","e"," ","c","h","e","c","k">>, SYSTEM, QM, None, None, <<>>)

SynWaterDiag == WIFRequirement(<<"D","I","A","G","_","W","I","F","_","0","0","7">>, <<"D","i","a","g","n","o","s","t","i","c"," ","o","f"," ","W","A","T","E","R"," ","R","E","S","I","S","T","A","N","C","E"," ","t","h","r","e","s","h","o","l","d"," ","5","0","OMEGA">>, DIAGNOSTIC, ASIL_B, None, <<"P","2","4","2","E">>, <<>>)

SynDiag == WIFRequirement(DIAG_WIF_003, <<"S","e","t"," ","D","T","C"," ","w","h","e","n"," ","c","a","l","i","b","r","a","t","i","o","n"," ","t","h","r","e","s","h","o","l","d"," ","i","s"," ","e","x","c","e","e","d","e","d">>, DIAGNOSTIC, ASIL_A, SYS_WIF_001, <<"P","2","4","2","E">>, <<>>)

SynDiagPlain == WIFRequirement(<<"D","I","A","G","_","W","I","F","_","0","0","8">>, <<"R","e","p","o","r","t"," ","s","t","a","t","u","s">>, DIAGNOSTIC, QM, None, None, <<>>)

SynCal == WIFRequirement(<<"S","W","_","W","I","F","_","0","0","4">>, <<"A","p","p","l","y"," ","p","a","r","a","m","e","t","e","r"," ","X">>, SOFTWARE, QM, None, None, <<>>)

SynDefault == WIFRequirement(SW_WIF_002, <<"D","e","b","o","u","n","c","e"," ","t","h","e"," ","W","I","F"," ","s","i","g","n","a","l">>, SOFTWARE, ASIL_B, SYS_WIF_001, None, <<CAL_WIF_Threshold>>)

\* A System requirement whose id holds no digit, of the default class.
SynNoDigit == WIFRequirement(<<"W","I","F","_","M","A","I","N">>, <<"L","a","m","p"," ","s","h","a","l","l"," ","l","i","g","h","t">>, SYSTEM, QM, None, None, <<>>)

\* The requirements a store is made of: one of the water-resistance class
\* with a threshold, one without, one that matches every class, one that
\* matches the diagnostic and the calibration class, a Diagnostic one of
\* the default class, one of the calibration class, one of the default
\* class and a System one with no digit in its id.
SynthPool == {SynWater, SynWaterNoThreshold, SynWaterDiag, SynDiag, SynDiagPlain, SynCal, SynDefault, SynNoDigit}

\* The stores: up to MaxStore requirements of the pool, in any order.
SynthStores ==
    UNION { {s \in [1..n -> SynthPool] : \A i, j \in 1..n : s[i] = s[j] => i = j} : n \in 1..MaxStore }

InitSynth ==
    /\ requirements \in SynthStores
    /\ a2l_parameters \in ValA2lSets
    /\ sys_counter = EmptyDict
    /\ sw_counter = EmptyDict
    /\ diag_counter = EmptyDict
    /\ allocs = <<>>
    /\ v_errors = <<>>
    /\ v_op = "none"
    /\ v_in = <<>>
    /\ v_valid = TRUE
    /\ v_ret = <<>>
    /\ v_report = CoverageReport
    /\ pc = "idle"
    /\ workbook = Unread
    /\ test_cases = <<>>
    /\ validator = FALSE
    /\ run_is_valid = TRUE
    /\ run_errors = <<>>
    /\ run_coverage = CoverageReport
    /\ output_files = <<>>
    /\ fs = {}
    /\ removed = 0
    /\ result = "none"
    /\ heap = <<DEFAULT_PRECONDITIONS, DEFAULT_POSTCONDITIONS, DEFAULT_TEST_TOOLS>>
    /\ tc_lists = <<>>
    /\ pending = 1..Len(requirements)
    /\ RaceIdle
    /\ RuleIdle
    /\ ParseIdle
    /\ SeqIdle

\* _create_test_case(req, req.req_type) for requirement i of the store, and
\* the append to self.test_cases that follows it.
Synthesize(i) ==
    /\ v_op = "none"
    /\ i \in pending
    /\ \E r \in {CreateTestCase(Counters, requirements[i], requirements[i].req_type)} :
        /\ sys_counter' = r.ctr.sys
        /\ sw_counter' = r.ctr.sw
        /\ diag_counter' = r.ctr.diag
        /\ test_cases' = Append(test_cases, r.tc)
        /\ allocs' = allocs \o AllocsOf(<<r.tc>>)
    /\ \E l \in {CreateLists(heap, requirements[i].req_type)} :
        /\ heap' = l.heap
        /\ tc_lists' = Append(tc_lists, l.lists)
    /\ pending' = pending \ {i}
    /\ UNCHANGED <<parseVars, seqVars, requirements, a2l_parameters, valVars, pc, workbook, validator, run_is_valid, run_errors,
                   run_coverage, output_files, fs, removed, result, raceVars, ruleVars>>

\* validate_all_test_cases once every requirement has its test case
ValidateSynthesized ==
    /\ v_op = "none"
    /\ pending = {}
    /\ \E r \in {validate_all(requirements, a2l_parameters, <<>>, test_cases)} :
        /\ v_errors' = r.self_errors
        /\ v_valid' = r.all_valid
        /\ v_ret' = r.errors
    /\ v_op' = "validate_all"
    /\ v_in' = test_cases
    /\ validator' = TRUE
    /\ UNCHANGED <<genVars, requirements, a2l_parameters, v_report, pc, workbook, test_cases,
                   run_is_valid, run_errors, run_coverage, output_files, fs, removed, result,
                   auxVars>>

NextSynth ==
    \/ \E i \in pending : Synthesize(i)
    \/ ValidateSynthesized

SpecSynth == InitSynth /\ [][NextSynth]_vars

---------------------------------------------------------------------------
(* The generic rule-based path: rules/rule_engine.py and                   *)
(* mapping/traceability.py.  A dict is the sequence of its items in        *)
(* insertion order.                                                        *)

\* models/requirement.py: Requirement, with the fields the two functions read
Requirement(req_id, title) == [req_id |-> req_id, title |-> title]

\* build_baseline_tests: the step and the test case made for one requirement
BaselineTest(req) ==
    [test_id |-> <<"T","C","-">> \o req.req_id,
     title |-> <<"V","a","l","i","d","a","t","e"," ">> \o req.title,
     preconditions |-> <<"S","y","s","t","e","m"," ","i","n","i","t","i","a","l","i","z","e","d">>,
     steps |-> << [step_id |-> <<"S","T","E","P","-">> \o req.req_id,
                   action |-> <<"V","e","r","i","f","y"," ">> \o req.title,
                   expected |-> req.title \o <<" ","i","s"," ","s","a","t","i","s","f","i","e","d">>,
                   requirement_ids |-> <<req.req_id>>] >>,
     requirements |-> <<req.req_id>>]

\* RuleEngine.build_baseline_tests
build_baseline_tests(reqs) == [i \in 1..Len(reqs) |-> BaselineTest(reqs[i])]

\* {r.req_id: [] for r in requirements}
RECURSIVE EmptyMatrix(_, _)
EmptyMatrix(reqs, matrix) ==
    IF reqs = <<>> THEN matrix
    ELSE EmptyMatrix(Tail(reqs),
                     IF \E i \in 1..Len(matrix) : matrix[i].req_id = Head(reqs).req_id
                     THEN [i \in 1..Len(matrix) |->
                              IF matrix[i].req_id = Head(reqs).req_id
                              THEN [matrix[i] EXCEPT !.tests = <<>>] ELSE matrix[i]]
                     ELSE Append(matrix, [req_id |-> Head(reqs).req_id, tests |-> <<>>]))

\* The matrix step that records no test.
MatrixAppendNothing(matrix, req_id, test_id) ==
    IF \E i \in 1..Len(matrix) : matrix[i].req_id = req_id
    THEN matrix
    ELSE Append(matrix, [req_id |-> req_id, tests |-> <<>>])

\* matrix.setdefault(req_id, []).append(tc.test_id)
MatrixAppend(matrix, req_id, test_id) ==
    IF \E i \in 1..Len(matrix) : matrix[i].req_id = req_id
    THEN [i \in 1..Len(matrix) |->
             IF matrix[i].req_id = req_id
             THEN [matrix[i] EXCEPT !.tests = Append(@, test_id)] ELSE matrix[i]]
    ELSE Append(matrix, [req_id |-> req_id, tests |-> <<test_id>>])

\* for req_id in tc.requirements: ...
RECURSIVE MatrixOfTest(_, _, _)
MatrixOfTest(matrix, test_id, req_ids) ==
    IF req_ids = <<>> THEN matrix
    ELSE MatrixOfTest(MatrixAppend(matrix, Head(req_ids), test_id), test_id, Tail(req_ids))

\* for tc in tests: ...
RECURSIVE MatrixOfTests(_, _)
MatrixOfTests(matrix, tests) ==
    IF tests = <<>> THEN matrix
    ELSE MatrixOfTests(MatrixOfTest(matrix, Head(tests).test_id, Head(tests).requirements),
                       Tail(tests))

\* build_trace_matrix
build_trace_matrix(reqs, tests) == MatrixOfTests(EmptyMatrix(reqs, <<>>), tests)

\* The requirements the rule engine is given.
RuleReqPool ==
    { Requirement(id, title) :
        id \in {<<"R","E","Q","-","1">>, <<"R","E","Q","-","2">>, <<"R","E","Q","-","1","0">>},
        title \in {<<"F","e","a","t","u","r","e"," ","A">>, <<"B">>} }

RuleReqLists == UNION { [1..n -> RuleReqPool] : n \in 0..MaxRuleReqs }

InitRules ==
    /\ rule_requirements \in RuleReqLists
    /\ rule_tests = <<>>
    /\ rule_matrix = <<>>
    /\ pc = "rules"
    /\ sys_counter = EmptyDict
    /\ sw_counter = EmptyDict
    /\ diag_counter = EmptyDict
    /\ allocs = <<>>
    /\ requirements = <<>>
    /\ a2l_parameters = {}
    /\ v_errors = <<>>
    /\ v_op = "none"
    /\ v_in = <<>>
    /\ v_valid = TRUE
    /\ v_ret = <<>>
    /\ v_report = CoverageReport
    /\ workbook = Unread
    /\ test_cases = <<>>
    /\ validator = FALSE
    /\ run_is_valid = TRUE
    /\ run_errors = <<>>
    /\ run_coverage = CoverageReport
    /\ output_files = <<>>
    /\ fs = {}
    /\ removed = 0
    /\ result = "none"
    /\ SynIdle
    /\ RaceIdle
    /\ ParseIdle
    /\ SeqIdle

\* tests = RuleEngine().build_baseline_tests(requirements)
BuildBaselineTests ==
    /\ pc = "rules"
    /\ rule_tests' = build_baseline_tests(rule_requirements)
    /\ pc' = "baseline"
    /\ UNCHANGED <<parseVars, seqVars, genVars, requirements, a2l_parameters, valVars, workbook, test_cases,
                   validator, run_is_valid, run_errors, run_coverage, output_files, fs,
                   removed, result, synVars, raceVars, rule_requirements, rule_matrix>>

\* matrix = build_trace_matrix(requirements, tests)
BuildTraceMatrix ==
    /\ pc = "baseline"
    /\ rule_matrix' = build_trace_matrix(rule_requirements, rule_tests)
    /\ pc' = "matrix"
    /\ UNCHANGED <<parseVars, seqVars, genVars, requirements, a2l_parameters, valVars, workbook, test_cases,
                   validator, run_is_valid, run_errors, run_coverage, output_files, fs,
                   removed, result, synVars, raceVars, rule_requirements, rule_tests>>

NextRules == BuildBaselineTests \/ BuildTraceMatrix

SpecRules == InitRules /\ [][NextRules]_vars

---------------------------------------------------------------------------
(* Two callers of _generate_test_case_id on one generator, interleaved     *)
(* statement by statement: the membership test, the initialisation, the    *)
(* read and the write of counter[req_id] += 1, and the read-back.  The     *)
(* generator is fresh or has made one allocation before.                   *)

Callers == {"a", "b"}

Other(t) == IF t = "a" THEN "b" ELSE "a"

\* counter = self._sys_counter, self._sw_counter or self._diag_counter
Which(tc_type) ==
    IF tc_type = SYSTEM THEN "sys" ELSE IF tc_type = SOFTWARE THEN "sw" ELSE "diag"

\* The requirement identifiers and categories the two callers are given.
RaceReqIds == { SYS_WIF_001, <<"R","E","Q","_","7">> }

RaceTypes == {SYSTEM, DIAGNOSTIC}

InitRace ==
    /\ t_pc = [t \in Callers |-> "check"]
    /\ t_arg \in [Callers -> [req_id : RaceReqIds, tc_type : RaceTypes]]
    /\ t_tmp = [t \in Callers |-> 0]
    /\ t_ret = [t \in Callers |-> None]
    /\ overlapped = FALSE
    /\ \/ sys_counter = EmptyDict /\ allocs = <<>>
       \/ \E r \in {GenerateTestCaseId([sys |-> EmptyDict, sw |-> EmptyDict, diag |-> EmptyDict],
                                        SYS_WIF_001, SYSTEM)} :
            /\ sys_counter = r.ctr.sys
            /\ allocs = <<[req_id |-> SYS_WIF_001, tc_type |-> SYSTEM, id |-> r.id]>>
    /\ sw_counter = EmptyDict
    /\ diag_counter = EmptyDict
    /\ requirements = <<>>
    /\ a2l_parameters = {}
    /\ v_errors = <<>>
    /\ v_op = "none"
    /\ v_in = <<>>
    /\ v_valid = TRUE
    /\ v_ret = <<>>
    /\ v_report = CoverageReport
    /\ pc = "idle"
    /\ workbook = Unread
    /\ test_cases = <<>>
    /\ validator = FALSE
    /\ run_is_valid = TRUE
    /\ run_errors = <<>>
    /\ run_coverage = CoverageReport
    /\ output_files = <<>>
    /\ fs = {}
    /\ removed = 0
    /\ result = "none"
    /\ SynIdle
    /\ RuleIdle
    /\ ParseIdle
    /\ SeqIdle

\* What a statement of caller t leaves alone besides the counters, and the
\* note that it ran while the other caller was between its first and its
\* last statement.
RaceFrame(t) ==
    /\ overlapped' = (overlapped \/ t_pc[Other(t)] \notin {"check", "done"})
    /\ UNCHANGED <<parseVars, seqVars, requirements, a2l_parameters, valVars, runVars, synVars, ruleVars, t_arg>>

\* The counters with the counter of caller t's category replaced by counter.
SetCounter(t, counter) ==
    \E c \in {[Counters EXCEPT ![Which(t_arg[t].tc_type)] = counter]} :
        /\ sys_counter' = c.sys
        /\ sw_counter' = c.sw
        /\ diag_counter' = c.diag

\* The membership test that sends every caller to the initialisation.
RaceCheckAlwaysInit(t) ==
    /\ t_pc[t] = "check"
    /\ t_pc' = [t_pc EXCEPT ![t] = "init"]
    /\ UNCHANGED <<parseVars, seqVars, sys_counter, sw_counter, diag_counter, allocs, t_tmp, t_ret>>
    /\ RaceFrame(t)

\* if req_id not in counter:
RaceCheck(t) ==
    /\ t_pc[t] = "check"
    /\ t_pc' = [t_pc EXCEPT ![t] =
                  IF t_arg[t].req_id \in DOMAIN Counters[Which(t_arg[t].tc_type)]
                  THEN "read" ELSE "init"]
    /\ UNCHANGED <<parseVars, seqVars, sys_counter, sw_counter, diag_counter, allocs, t_tmp, t_ret>>
    /\ RaceFrame(t)

\* counter[req_id] = 0
RaceInit(t) ==
    /\ t_pc[t] = "init"
    /\ LET counter == Counters[Which(t_arg[t].tc_type)]
           req_id == t_arg[t].req_id
       IN  SetCounter(t, IF req_id \in DOMAIN counter
                         THEN [counter EXCEPT ![req_id] = 0]
                         ELSE counter @@ (req_id :> 0))
    /\ t_pc' = [t_pc EXCEPT ![t] = "read"]
    /\ UNCHANGED <<parseVars, seqVars, allocs, t_tmp, t_ret>>
    /\ RaceFrame(t)

\* counter[req_id] += 1: the read
RaceRead(t) ==
    /\ t_pc[t] = "read"
    /\ t_tmp' = [t_tmp EXCEPT ![t] = Counters[Which(t_arg[t].tc_type)][t_arg[t].req_id]]
    /\ t_pc' = [t_pc EXCEPT ![t] = "write"]
    /\ UNCHANGED <<parseVars, seqVars, sys_counter, sw_counter, diag_counter, allocs, t_ret>>
    /\ RaceFrame(t)

\* counter[req_id] += 1: the write
RaceWrite(t) ==
    /\ t_pc[t] = "write"
    /\ SetCounter(t, [Counters[Which(t_arg[t].tc_type)] EXCEPT ![t_arg[t].req_id] = t_tmp[t] + 1])
    /\ t_pc' = [t_pc EXCEPT ![t] = "readback"]
    /\ UNCHANGED <<parseVars, seqVars, allocs, t_tmp, t_ret>>
    /\ RaceFrame(t)

\* seq_num = str(counter[req_id]).zfill(3) and the return
RaceReadBack(t) ==
    /\ t_pc[t] = "readback"
    /\ \E id \in {FormatTestCaseId(Prefix(t_arg[t].tc_type), ReqNum(t_arg[t].req_id),
                                  SeqNum(Counters[Which(t_arg[t].tc_type)][t_arg[t].req_id]))} :
        /\ t_ret' = [t_ret EXCEPT ![t] = id]
        /\ allocs' = Append(allocs, [req_id |-> t_arg[t].req_id, tc_type |-> t_arg[t].tc_type, id |-> id])
    /\ t_pc' = [t_pc EXCEPT ![t] = "done"]
    /\ UNCHANGED <<parseVars, seqVars, sys_counter, sw_counter, diag_counter, t_tmp>>
    /\ RaceFrame(t)

NextRace ==
    \E t \in Callers :
        \/ RaceCheck(t)
        \/ RaceInit(t)
        \/ RaceRead(t)
        \/ RaceWrite(t)
        \/ RaceReadBack(t)

SpecRace == InitRace /\ [][NextRace]_vars

---------------------------------------------------------------------------
(* The safety level of one row: _load_sheet reads the cell of the         *)
(* safety-level column and gives its text to _parse_asil.                 *)

\* The spellings of a level: 'ASIL' in three letter cases, a hyphen, a
\* space or nothing before the letter, the four level letters in either
\* case and a letter that is no level, with and without a space on each
\* side.
AsilSpellings ==
    { left \o word \o sep \o <<letter>> \o right :
        left \in {<<>>, <<" ">>},
        word \in {<<"A","S","I","L">>, <<"a","s","i","l">>, <<"A","s","i","l">>},
        sep \in {<<"-">>, <<" ">>, <<>>},
        letter \in {"A", "b", "C", "d", "E"},
        right \in {<<>>, <<" ">>} }

\* The cells of the safety-level column: an empty cell (NaN), a spelling
\* of a level, a spelling of QM, and texts that name no level.
AsilCells ==
    AsilSpellings
    \cup {None, <<"Q","M">>, <<"q","m">>, <<" ","Q","m"," ">>, <<"h","i","g","h">>, <<"A","S","I","L">>, <<"A","S","I","L","-","-","A">>, <<"A","S","I","L"," "," ","A">>, <<"A","S","I","L","_","A">>, <<"A">>, <<" ">>}

InitParse ==
    /\ asil_cell \in AsilCells
    /\ parsed_asil = <<>>
    /\ pc = "parse"
    /\ sys_counter = EmptyDict
    /\ sw_counter = EmptyDict
    /\ diag_counter = EmptyDict
    /\ allocs = <<>>
    /\ requirements = <<>>
    /\ a2l_parameters = {}
    /\ v_errors = <<>>
    /\ v_op = "none"
    /\ v_in = <<>>
    /\ v_valid = TRUE
    /\ v_ret = <<>>
    /\ v_report = CoverageReport
    /\ workbook = Unread
    /\ test_cases = <<>>
    /\ validator = FALSE
    /\ run_is_valid = TRUE
    /\ run_errors = <<>>
    /\ run_coverage = CoverageReport
    /\ output_files = <<>>
    /\ fs = {}
    /\ removed = 0
    /\ result = "none"
    /\ SynIdle
    /\ RaceIdle
    /\ RuleIdle
    /\ SeqIdle

\* asil_str = str(row[asil_col]).strip() if ... pd.notna(...) else "QM"
\* asil = self._parse_asil(asil_str)
ParseAsilOfCell ==
    /\ pc = "parse"
    /\ parsed_asil' = ParseAsil(Cell(<<asil_cell>>, 1, QM))
    /\ pc' = "parsed"
    /\ UNCHANGED <<genVars, requirements, a2l_parameters, valVars, workbook, test_cases,
                   validator, run_is_valid, run_errors, run_coverage, output_files, fs,
                   removed, result, synVars, raceVars, ruleVars, seqVars, asil_cell>>

NextParse == ParseAsilOfCell

SpecParse == InitParse /\ [][NextParse]_vars

---------------------------------------------------------------------------
(* Claims about the pipeline, under Spec.                                  *)

\* The three generate_* calls of run() have returned.
Generated ==
    \/ pc \in {"diagnostic", "validated", "covered", "exported"}
    \/ pc = "done" /\ validator

\* The test cases of the list that are for the requirement req_id.
TestCasesFor(req_id) == {j \in 1..Len(test_cases) : test_cases[j].requirement_id = req_id}

\* C1: once the three generate_* calls have each run on a non-empty store,
\* the list holds exactly one test case per stored requirement and no other,
\* and validate_coverage on the list reports 100 percent and an empty
\* uncovered list.
C1_OneTestCasePerRequirementAndFullCoverage ==
    Generated =>
        /\ requirements # <<>>
        /\ Len(test_cases) = Len(requirements)
        /\ \A i \in 1..Len(requirements) :
              Cardinality(TestCasesFor(requirements[i].req_id)) = 1
        /\ LET report == validate_coverage(requirements, v_errors, test_cases).report IN
              /\ report.coverage_percentage.num = 100 * report.coverage_percentage.den
              /\ report.uncovered_requirements = <<>>
        /\ pc \in {"covered", "exported"} =>
              /\ run_coverage.coverage_percentage.num = 100 * run_coverage.coverage_percentage.den
              /\ run_coverage.uncovered_requirements = <<>>

\* C1 witness: a store with requirements of two categories, its test cases
\* generated and the coverage computed.
C1_Witness ==
    /\ pc = "covered"
    /\ Len(requirements) >= 2
    /\ \E i, j \in 1..Len(requirements) : requirements[i].req_type # requirements[j].req_type
    /\ Len(test_cases) = Len(requirements)
    /\ run_coverage.total_requirements = Len(requirements)
    /\ is_complete(run_coverage)

\* The four conditions of success, on what run() holds when it returns.
AllFourHold ==
    /\ requirements # <<>>
    /\ CriticalErrors(run_errors) = <<>>
    /\ is_complete(run_coverage)
    /\ output_files # <<>>
    /\ \A p \in Range(output_files) : p \in fs

\* C7: run() returns True only if a requirement was loaded, validate_all
\* reported no CRITICAL error, the coverage report is complete and every
\* artifact export_results returned exists; when it returns otherwise, after
\* an exception of the load or of the export too, it returns False, and the
\* exit status is 1.
C7_SuccessOnlyIfAllFourHold ==
    /\ pc = "done" <=> result \in {"True", "False"}
    /\ pc # "done" <=> result = "none"
    /\ result = "True" => AllFourHold
    /\ pc = "done" /\ ~AllFourHold => result = "False" /\ ExitStatus(result) = 1
    /\ pc = "done" /\ workbook = NoFile => result = "False"
    /\ pc = "done" /\ output_files = <<>> => result = "False"

\* C7 witness: a run that returns True with two artifacts or more, all there.
C7_Witness ==
    /\ pc = "done"
    /\ result = "True"
    /\ Len(output_files) >= 2
    /\ AllFourHold

\* C17: every test case the pipeline has synthesized refers to a
\* requirement of the store and has that requirement's category, safety
\* level and trouble code; the validation of the test cases against the
\* store reports no INVALID_REQUIREMENT_REF, ASIL_MISMATCH or TYPE_MISMATCH.
C17_SynthesizedTestCasesMatchTheirRequirement ==
    /\ \A k \in 1..Len(test_cases) :
        /\ \E i \in 1..Len(requirements) :
              /\ requirements[i].req_id = test_cases[k].requirement_id
              /\ requirements[i].req_type = test_cases[k].type
              /\ requirements[i].asil_level = test_cases[k].asil_level
              /\ requirements[i].dtc_code = test_cases[k].dtc_code
    /\ \A i \in 1..Len(run_errors) :
          run_errors[i].error_type \notin {"INVALID_REQUIREMENT_REF", "ASIL_MISMATCH", "TYPE_MISMATCH"}
    /\ \A i \in 1..Len(v_errors) :
          v_errors[i].error_type \notin {"INVALID_REQUIREMENT_REF", "ASIL_MISMATCH", "TYPE_MISMATCH"}

\* C17 witness: test cases of two categories, one with a safety level other
\* than QM and one with a trouble code, have been validated; the validator
\* has reported other errors, none of the three.
C17_Witness ==
    /\ pc = "validated"
    /\ \E j, k \in 1..Len(test_cases) :
          /\ test_cases[j].type # test_cases[k].type
          /\ test_cases[j].asil_level # QM
          /\ test_cases[k].dtc_code # None
    /\ run_errors # <<>>
    /\ ~run_is_valid

\* C13: when loading leaves the Requirement Store empty, run() returns
\* False (exit status 1) having created no test case, allocated no
\* identifier, constructed no validator, made no validation and no coverage
\* computation, and written no artifact.
C13_EmptyStoreAbortsBeforeAnyWork ==
    (pc # "start" /\ requirements = <<>>) =>
        /\ pc = "done"
        /\ result = "False"
        /\ ExitStatus(result) = 1
        /\ test_cases = <<>>
        /\ allocs = <<>>
        /\ Counters = [sys |-> EmptyDict, sw |-> EmptyDict, diag |-> EmptyDict]
        /\ ~validator
        /\ v_errors = <<>>
        /\ run_errors = <<>>
        /\ run_coverage = CoverageReport
        /\ output_files = <<>>
        /\ fs = {}

\* C13 witness: a workbook whose System sheet has rows, all of them skipped,
\* whose Software sheet is skipped for want of an identifier column, and
\* that has no Diagnostic sheet; run() has returned False.
C13_Witness ==
    /\ pc = "done"
    /\ workbook.file = "read"
    /\ workbook.system.present /\ workbook.system.columns = Headers
    /\ workbook.software.present /\ workbook.software.columns = HeadersNoId
    /\ ~workbook.diagnostic.present
    /\ requirements = <<>>
    /\ result = "False"

\* C23: the export step of run() (export_results, with the coverage
\* recomputation of the summary sheet), whether it completes or a write
\* raises, leaves the Requirement Store, the list of test cases with every
\* field of every test case, and the three identifier counters as they
\* were.
C23_ExportLeavesStoreTestCasesAndCounters ==
    [][pc = "covered" /\ pc' \in {"exported", "done"} =>
          /\ requirements' = requirements
          /\ test_cases' = test_cases
          /\ sys_counter' = sys_counter
          /\ sw_counter' = sw_counter
          /\ diag_counter' = diag_counter]_vars

\* An export that wrote the matrix is over, with a store of two
\* requirements, their test cases and counters that were written to.
C23_Witness ==
    /\ pc = "exported"
    /\ Len(requirements) = 2
    /\ Len(test_cases) = 2
    /\ "traceability_matrix" \in fs
    /\ sys_counter # EmptyDict

\* C26: a run that has ended, with no file removed by the environment, has
\* written either every artifact of its export plan (one JSON collection
\* per category with test cases, and the traceability matrix) or none.
C26_ExportIsAllOrNothing ==
    pc = "done" /\ removed = 0 =>
        fs = {} \/ fs = Range(ExportPlan(test_cases))

\* The requirements _load_sheet accepts from one category sheet alone.
LoadedFrom(sheet, req_type) ==
    IF sheet.present THEN LoadSheet(<<>>, sheet, req_type) ELSE <<>>

\* No two rows of the sheet have the same identifier cell.
UniqueWithinSheet(sheet) ==
    \A i, j \in 1..Len(sheet.rows) : i # j => sheet.rows[i][1] # sheet.rows[j][1]

\* C29: after loading a workbook whose identifiers are unique within each
\* category sheet, every requirement accepted from a category sheet is in
\* the Requirement Store with its own category, also when its identifier
\* occurs in the sheet of another category; the size of the store is the
\* sum of the numbers accepted per sheet.
C29_LoadingLosesNoRequirement ==
    (/\ pc = "loaded"
     /\ UniqueWithinSheet(workbook.system)
     /\ UniqueWithinSheet(workbook.software)
     /\ UniqueWithinSheet(workbook.diagnostic)) =>
        LET sys == LoadedFrom(workbook.system, SYSTEM)
            sw == LoadedFrom(workbook.software, SOFTWARE)
            diag == LoadedFrom(workbook.diagnostic, DIAGNOSTIC)
        IN  /\ Range(sys) \cup Range(sw) \cup Range(diag) \subseteq Range(requirements)
            /\ Len(requirements) = Len(sys) + Len(sw) + Len(diag)

---------------------------------------------------------------------------
(* Claims about the safety-level parser, under SpecParse.                 *)

\* The text of a cell without its letter case, its surrounding whitespace
\* and one hyphen or space after 'asil'.
AsilNormalForm(text) ==
    LET key == Strip(Lower(text)) IN
    IF Len(key) = 6 /\ SubSeq(key, 1, 4) = <<"a","s","i","l">> /\ key[5] \in {"-", " "}
    THEN SubSeq(key, 1, 4) \o <<key[6]>>
    ELSE key

\* The level a text spells: the level whose canonical spelling has the
\* same normal form, QM for a text that spells none.
SpelledLevel(text) ==
    IF \E level \in ASILLevel : AsilNormalForm(level) = AsilNormalForm(text)
    THEN CHOOSE level \in ASILLevel : AsilNormalForm(level) = AsilNormalForm(text)
    ELSE QM

\* C24: the parsed safety level of a cell is the level its text spells,
\* whatever the letter case, the surrounding whitespace and the hyphen,
\* space or nothing between 'ASIL' and the level letter; every other text,
\* and an empty cell, gives QM; the parser returns a level of the
\* enumeration for every cell.
C24_EverySpellingOfALevelParsesToIt ==
    pc = "parsed" =>
        /\ parsed_asil \in ASILLevel
        /\ parsed_asil = (IF asil_cell = None THEN QM ELSE SpelledLevel(asil_cell))

---------------------------------------------------------------------------
(* Claims about the identifier allocator, under SpecAlloc.                 *)

\* The number of the allocation allocs[i] among the allocations for its own
\* category and requirement identifier.
NthOfItsKey(i) ==
    Cardinality({j \in 1..i : /\ allocs[j].req_id = allocs[i].req_id
                              /\ allocs[j].tc_type = allocs[i].tc_type})

\* The text of an identifier after its last underscore.
AfterLastUnderscore(id) ==
    LET u == Max({k \in 1..Len(id) : id[k] = "_"}) IN SubSeq(id, u + 1, Len(id))

\* k written with three decimal digits, for k < 1000
ThreeDigits(k) == <<Chr(48 + (k \div 100)), Chr(48 + ((k \div 10) % 10)), Chr(48 + (k % 10))>>

\* C2: the k-th allocation for a category and requirement identifier, however
\* it is interleaved with allocations for other identifiers and categories,
\* returns the sequence number k written with three digits: 001, 002, ...
C2_KthAllocationHasSequenceNumberK ==
    \A i \in 1..Len(allocs) :
        AfterLastUnderscore(allocs[i].id) = ThreeDigits(NthOfItsKey(i))

\* C2 witness: a requirement identifier allocated a second time after an
\* allocation for another identifier of the same category came in between.
C2_Witness ==
    \E i \in 1..Len(allocs) : \E j \in 1..(i - 1) : \E m \in (j + 1)..(i - 1) :
        /\ allocs[i].req_id = allocs[j].req_id
        /\ allocs[i].tc_type = allocs[j].tc_type
        /\ allocs[m].tc_type = allocs[i].tc_type
        /\ allocs[m].req_id # allocs[i].req_id
        /\ AfterLastUnderscore(allocs[i].id) = <<"0","0","2">>

\* C3: no two allocations on one generator return the same identifier.
C3_NoTwoAllocationsReturnTheSameId ==
    \A i \in 1..Len(allocs) : \A j \in 1..Len(allocs) :
        i # j => allocs[i].id # allocs[j].id

\* C4: every identifier the allocator returns matches the validator's
\* pattern for its category, <prefix>_NNN_NNN.
C4_EveryAllocatedIdMatchesThePattern ==
    \A i \in 1..Len(allocs) : ValidateTestCaseId(allocs[i].tc_type, allocs[i].id)

---------------------------------------------------------------------------
(* Claims about the validator and the coverage engine, under SpecValidate. *)

ErrorTypes(errors) == {errors[i].error_type : i \in 1..Len(errors)}

\* The requirement identifiers of the test cases given to the last call.
ReferencedIds == {v_in[i].requirement_id : i \in 1..Len(v_in)}

\* C5: in the report of validate_coverage the two conditions of completeness
\* agree: the percentage is at least 100 exactly when nothing is uncovered.
C5_PercentageAndUncoveredListAgree ==
    v_op = "validate_coverage" =>
        (v_report.coverage_percentage.num >= 100 * v_report.coverage_percentage.den
            <=> v_report.uncovered_requirements = <<>>)

\* C6: the uncovered list of the report is the sorted list of the stored
\* identifiers no test case references, the covered count is the number of
\* distinct identifiers the test cases reference, the percentage is
\* covered/total*100 (100 for an empty store), and the report is not
\* complete when a stored requirement has no test case.
C6_CoverageReportIsTheSetDifference ==
    v_op = "validate_coverage" =>
        LET unc == v_report.uncovered_requirements
            pct == v_report.coverage_percentage
        IN  /\ {unc[i] : i \in 1..Len(unc)} = Keys(requirements) \ ReferencedIds
            /\ \A i \in 1..(Len(unc) - 1) : StrLess(unc[i], unc[i + 1])
            /\ v_report.covered_requirements = Cardinality(ReferencedIds)
            /\ v_report.total_requirements = Len(requirements)
            /\ IF Len(requirements) = 0
               THEN pct.num = 100 * pct.den
               ELSE pct.num * Len(requirements) = 100 * Cardinality(ReferencedIds) * pct.den
            /\ (Keys(requirements) \ ReferencedIds # {} => ~is_complete(v_report))

\* C6 witness: three requirements, test cases for the first two: the third
\* alone is uncovered, 2 of 3 are covered, 66.67 percent, not complete.
C6_Witness ==
    /\ v_op = "validate_coverage"
    /\ Keys(requirements) = {SYS_WIF_001, SW_WIF_002, DIAG_WIF_003}
    /\ ReferencedIds = {SYS_WIF_001, SW_WIF_002}
    /\ v_report.uncovered_requirements = <<DIAG_WIF_003>>
    /\ v_report.covered_requirements = 2
    /\ v_report.total_requirements = 3
    /\ LET pct == v_report.coverage_percentage
       IN  (pct.num * 100 * 2 + pct.den) \div (2 * pct.den) = 6667
    /\ ~is_complete(v_report)

\* The errors a fresh validator reports for one test case.
ErrorsOf(tc) == validate_test_case(requirements, a2l_parameters, <<>>, tc).errors

HasCritical(errors) == \E i \in 1..Len(errors) : errors[i].severity = CRITICAL

RECURSIVE ConcatErrorsOf(_)
ConcatErrorsOf(tcs) ==
    IF tcs = <<>> THEN <<>>
    ELSE ErrorsOf(Head(tcs)) \o ConcatErrorsOf(Tail(tcs))

\* C8: validate_test_case reports a test case valid exactly when the errors
\* it returns hold no CRITICAL one; validate_all reports the list valid
\* exactly when each test case alone is valid, and returns the errors of
\* the test cases one after the other, in the order of the list.
C8_ValidIffNoCriticalError ==
    /\ v_op = "validate_test_case" => (v_valid <=> ~HasCritical(v_ret))
    /\ v_op = "validate_all" =>
        /\ v_valid <=> \A i \in 1..Len(v_in) : ~HasCritical(ErrorsOf(v_in[i]))
        /\ v_ret = ConcatErrorsOf(v_in)
        /\ v_errors = v_ret

\* C8 witness: a list in which one test case has a warning only and a later
\* one has a CRITICAL error; the list is reported not valid.
C8_Witness ==
    /\ v_op = "validate_all"
    /\ ~v_valid
    /\ \E i \in 1..Len(v_in) : \E j \in (i + 1)..Len(v_in) :
        /\ ErrorsOf(v_in[i]) # <<>>
        /\ ~HasCritical(ErrorsOf(v_in[i]))
        /\ HasCritical(ErrorsOf(v_in[j]))

\* C9: for a test case whose requirement is not in the store the validator
\* reports a CRITICAL INVALID_REQUIREMENT_REF and neither ASIL_MISMATCH nor
\* TYPE_MISMATCH, and still makes the other checks; for one whose
\* requirement is in the store it reports TYPE_MISMATCH exactly when the
\* categories differ and ASIL_MISMATCH exactly when the safety levels differ.
C9_RequirementReferenceCheck ==
    v_op = "validate_test_case" =>
        LET tc == v_in[1]
            types == ErrorTypes(v_ret)
            count(t) == Cardinality({i \in 1..Len(v_ret) : v_ret[i].error_type = t})
            critical(t) == \A i \in 1..Len(v_ret) :
                              v_ret[i].error_type = t => v_ret[i].severity = CRITICAL
        IN  /\ critical("INVALID_REQUIREMENT_REF")
            /\ critical("TYPE_MISMATCH")
            /\ critical("ASIL_MISMATCH")
            /\ IF tc.requirement_id \notin Keys(requirements)
               THEN /\ count("INVALID_REQUIREMENT_REF") = 1
                    /\ "ASIL_MISMATCH" \notin types
                    /\ "TYPE_MISMATCH" \notin types
               ELSE LET req == Get(requirements, tc.requirement_id) IN
                    /\ "INVALID_REQUIREMENT_REF" \notin types
                    /\ count("TYPE_MISMATCH") = (IF tc.type # req.req_type THEN 1 ELSE 0)
                    /\ count("ASIL_MISMATCH") = (IF tc.asil_level # req.asil_level THEN 1 ELSE 0)
            /\ "INVALID_ID_FORMAT" \in types <=> ~ValidateTestCaseId(tc.type, tc.test_case_id)
            /\ "NO_TEST_STEPS" \in types <=> tc.test_steps = <<>>
            /\ "VAGUE_PASS_CRITERIA" \in types <=> Len(tc.pass_criteria) < 10
            /\ "MISSING_SYSTEM_TRACE" \in types
                  <=> (tc.type = SYSTEM /\ ~Truthy(tc.traceability.system_req))
            /\ "MISSING_SOFTWARE_TRACE" \in types
                  <=> (tc.type = SOFTWARE /\ ~Truthy(tc.traceability.software_req))
            /\ "MISSING_DIAGNOSTIC_TRACE" \in types
                  <=> (tc.type = DIAGNOSTIC /\ ~Truthy(tc.traceability.diagnostic_req))

\* C9 witness: a test case for a requirement that is in no store, with a
\* malformed identifier, no step and no traceability: the reference error
\* and the errors of the other checks are all reported.
C9_Witness ==
    /\ v_op = "validate_test_case"
    /\ requirements # <<>>
    /\ v_in[1].requirement_id \notin Keys(requirements)
    /\ {"INVALID_REQUIREMENT_REF", "INVALID_ID_FORMAT", "NO_TEST_STEPS",
        "MISSING_SYSTEM_TRACE", "VAGUE_PASS_CRITERIA"} \subseteq ErrorTypes(v_ret)

\* A text with no comparison sign, no digit and no boolean literal (a hex
\* literal starts with a digit).
NoQuantifiableToken(s) ==
    /\ \A k \in 1..Len(s) : s[k] \notin {"<", ">", "=", "LE", "GE"} /\ ~IsDigit(s[k])
    /\ ~Contains(Lower(s), <<"t","r","u","e">>)
    /\ ~Contains(Lower(s), <<"f","a","l","s","e">>)

\* The errors of v_ret that name step n in their message.
ErrorsOfStep(n) ==
    SelectSeq(v_ret, LAMBDA e :
        /\ e.error_type \in {"VAGUE_ACTION", "VAGUE_EXPECTED_RESULT", "NON_MEASURABLE_RESULT"}
        /\ e.message[1] = StrInt(n))

\* C10 as the specification states it: a step whose expected result holds
\* no quantifiable token and no vague phrase (such as "PASS") gets exactly
\* one NON_MEASURABLE_RESULT, a WARNING, and no CRITICAL error; a test case
\* or a list whose only errors are such warnings is reported valid.  The
\* step "Check" / "PASS" refutes it: its action is vague, a CRITICAL
\* VAGUE_ACTION.
C10_NoCriticalErrorForTheStep ==
    /\ v_op = "validate_test_case" =>
        \A n \in 1..Len(v_in[1].test_steps) :
            LET step == v_in[1].test_steps[n]
                errs == ErrorsOfStep(n)
                nmr == SelectSeq(errs, LAMBDA e : e.error_type = "NON_MEASURABLE_RESULT")
            IN  NoQuantifiableToken(step.expected_result) /\ ~IsVague(step.expected_result) =>
                    /\ Len(nmr) = 1
                    /\ nmr[1].severity = WARNING
                    /\ ~HasCritical(errs)
    /\ v_op \in {"validate_test_case", "validate_all"} =>
        ((\A i \in 1..Len(v_ret) : v_ret[i].error_type = "NON_MEASURABLE_RESULT") => v_valid)

\* C10, amended: a step whose expected result holds no quantifiable token
\* and no vague phrase (such as "PASS") gets exactly one
\* NON_MEASURABLE_RESULT, a WARNING, and no CRITICAL error for its expected
\* result; the step has a CRITICAL error exactly when its action is vague,
\* and then only VAGUE_ACTION.  A test case or a list whose only errors are
\* such warnings is reported valid.
C10_NonMeasurableResultIsAWarning ==
    /\ v_op = "validate_test_case" =>
        \A n \in 1..Len(v_in[1].test_steps) :
            LET step == v_in[1].test_steps[n]
                errs == ErrorsOfStep(n)
                nmr == SelectSeq(errs, LAMBDA e : e.error_type = "NON_MEASURABLE_RESULT")
            IN  NoQuantifiableToken(step.expected_result) /\ ~IsVague(step.expected_result) =>
                    /\ Len(nmr) = 1
                    /\ nmr[1].severity = WARNING
                    /\ \A i \in 1..Len(errs) : errs[i].error_type # "VAGUE_EXPECTED_RESULT"
                    /\ \A i \in 1..Len(errs) :
                          errs[i].severity = CRITICAL => errs[i].error_type = "VAGUE_ACTION"
                    /\ HasCritical(errs) <=> IsVague(step.action)
    /\ v_op \in {"validate_test_case", "validate_all"} =>
        ((\A i \in 1..Len(v_ret) : v_ret[i].error_type = "NON_MEASURABLE_RESULT") => v_valid)

\* C10 witness: a test case with the expected result "PASS" in one of its
\* steps and nothing else wrong: one warning, and the test case is valid.
C10_Witness ==
    /\ v_op = "validate_test_case"
    /\ \E n \in 1..Len(v_in[1].test_steps) :
          v_in[1].test_steps[n].expected_result = <<"P","A","S","S">>
    /\ Len(v_ret) = 1
    /\ v_ret[1].error_type = "NON_MEASURABLE_RESULT"
    /\ v_ret[1].severity = WARNING
    /\ v_valid

\* The errors of v_ret of one type.
ErrorsOfType(t) == SelectSeq(v_ret, LAMBDA e : e.error_type = t)

\* C11: the traceability check reports MISSING_SYSTEM_TRACE exactly when a
\* System test case has no system reference, MISSING_SOFTWARE_TRACE exactly
\* when a Software test case has no software reference,
\* MISSING_PARENT_TRACE exactly when a Software test case's requirement is
\* in the store and declares a parent while the test case has no system
\* reference, and MISSING_DIAGNOSTIC_TRACE exactly when a Diagnostic test
\* case has no diagnostic reference; each once, each CRITICAL, so the test
\* case is then not valid.
C11_TraceabilityIsCategoryDependent ==
    v_op = "validate_test_case" =>
        LET tc == v_in[1]
            trace == tc.traceability
            expected(t) ==
                IF t = "MISSING_SYSTEM_TRACE"
                THEN tc.type = SYSTEM /\ trace.system_req \in {None, <<>>}
                ELSE IF t = "MISSING_SOFTWARE_TRACE"
                THEN tc.type = SOFTWARE /\ trace.software_req \in {None, <<>>}
                ELSE IF t = "MISSING_PARENT_TRACE"
                THEN /\ tc.type = SOFTWARE
                     /\ trace.system_req \in {None, <<>>}
                     /\ \E i \in 1..Len(requirements) :
                            /\ requirements[i].req_id = tc.requirement_id
                            /\ requirements[i].parent_system_req \notin {None, <<>>}
                ELSE tc.type = DIAGNOSTIC /\ trace.diagnostic_req \in {None, <<>>}
        IN  \A t \in {"MISSING_SYSTEM_TRACE", "MISSING_SOFTWARE_TRACE",
                       "MISSING_PARENT_TRACE", "MISSING_DIAGNOSTIC_TRACE"} :
                /\ Len(ErrorsOfType(t)) = (IF expected(t) THEN 1 ELSE 0)
                /\ \A i \in 1..Len(ErrorsOfType(t)) : ErrorsOfType(t)[i].severity = CRITICAL
                /\ expected(t) => ~v_valid

\* C11 witness: the synthesized Diagnostic test case of the requirement with
\* trouble code P242E, its diagnostic reference removed by hand, validated
\* against the store it was made from: MISSING_DIAGNOSTIC_TRACE is its only
\* CRITICAL error and it is not valid.
C11_Witness ==
    /\ v_op = "validate_test_case"
    /\ requirements = <<ValSys, ValSw, ValDiag>>
    /\ v_in[1].requirement_id = DIAG_WIF_003
    /\ v_in[1].dtc_code = <<"P","2","4","2","E">>
    /\ v_in[1].test_steps = GenerateTestSteps(ValDiag)
    /\ v_in[1].traceability = Traceability(None, None, None, None)
    /\ ErrorTypes(CriticalErrors(v_ret)) = {"MISSING_DIAGNOSTIC_TRACE"}
    /\ ~v_valid

\* C22: for a test case that declares a calibration reference,
\* validate_test_case reports INVALID_A2L_FORMAT, CRITICAL, exactly when
\* the reference does not match the naming pattern, and INVALID_A2L_REF,
\* CRITICAL, exactly when the reference matches, the calibration-name set
\* is not empty and the reference is not in it; never both, each at most
\* once. A test case with no reference gets neither, and so does one with
\* a well-formed reference under an empty calibration-name set.
C22_CalibrationReferenceCheck ==
    v_op = "validate_test_case" =>
        LET ref == v_in[1].traceability.a2l_reference
            format == ErrorsOfType("INVALID_A2L_FORMAT")
            unknown == ErrorsOfType("INVALID_A2L_REF")
        IN  /\ Len(format) + Len(unknown) <= 1
            /\ \A i \in 1..Len(format) : format[i].severity = CRITICAL
            /\ \A i \in 1..Len(unknown) : unknown[i].severity = CRITICAL
            /\ ref = None => format = <<>> /\ unknown = <<>>
            /\ ref # None =>
                  /\ format # <<>> <=> ~MatchesA2lPattern(ref)
                  /\ unknown # <<>> <=>
                        /\ MatchesA2lPattern(ref)
                        /\ a2l_parameters # {}
                        /\ ref \notin a2l_parameters
            /\ ref # None /\ MatchesA2lPattern(ref) /\ a2l_parameters = {} =>
                  format = <<>> /\ unknown = <<>>

\* A malformed reference that is also not in the loaded set was validated
\* and got the format error alone.
C22_Witness ==
    /\ v_op = "validate_test_case"
    /\ v_in[1].traceability.a2l_reference = <<"W","I","F","_","T","h","r","e","s","h","o","l","d">>
    /\ a2l_parameters = {CAL_WIF_Threshold}
    /\ Len(ErrorsOfType("INVALID_A2L_FORMAT")) = 1
    /\ ErrorsOfType("INVALID_A2L_REF") = <<>>

\* The stored requirements no test case given to the call refers to.
UncoveredByCall ==
    {requirements[i].req_id : i \in 1..Len(requirements)} \ {v_in'[i].requirement_id : i \in 1..Len(v_in')}

\* What a call has added at the end of the accumulated list.
AddedByCall == SubSeq(v_errors', Len(v_errors) + 1, Len(v_errors'))

\* C25: every call on a validator other than clear_errors leaves the
\* accumulated errors as they were and adds the errors it reports at the
\* end: validate_test_case and validate_all the errors they return,
\* validate_coverage one CRITICAL UNCOVERED_REQUIREMENT with test case id
\* "N/A" for each uncovered requirement. So the list is the errors of the
\* calls one after the other in call order.
C25_AccumulatedErrorsAreAppendOnly ==
    [][v_calls' = v_calls + 1 /\ v_op' # "clear_errors" =>
          /\ Len(v_errors') >= Len(v_errors)
          /\ SubSeq(v_errors', 1, Len(v_errors)) = v_errors
          /\ v_op' \in {"validate_test_case", "validate_all"} => AddedByCall = v_ret'
          /\ v_op' = "validate_coverage" =>
                /\ Len(AddedByCall) = Cardinality(UncoveredByCall)
                /\ {AddedByCall[i].message[1] : i \in 1..Len(AddedByCall)} = UncoveredByCall
                /\ \A i \in 1..Len(AddedByCall) :
                      /\ AddedByCall[i].test_case_id = <<"N","/","A">>
                      /\ AddedByCall[i].error_type = "UNCOVERED_REQUIREMENT"
                      /\ AddedByCall[i].severity = CRITICAL]_vars

\* A second call, validate_coverage with uncovered requirements, on a
\* validator that already holds the errors of a first call.
C25_Witness ==
    /\ v_calls = 2
    /\ v_op = "validate_coverage"
    /\ v_report.uncovered_requirements # <<>>
    /\ Len(v_errors) > Len(v_report.uncovered_requirements)
    /\ v_errors[1].error_type # "UNCOVERED_REQUIREMENT"
    /\ v_errors[Len(v_errors)].error_type = "UNCOVERED_REQUIREMENT"

---------------------------------------------------------------------------
(* Claims about the generic rule-based path, under SpecRules.              *)

\* The requirements given have distinct identifiers.
DistinctRuleIds ==
    \A i, j \in 1..Len(rule_requirements) :
        rule_requirements[i].req_id = rule_requirements[j].req_id => i = j

\* The identifiers of the tests that reference req_id, in the order of the tests.
TestsReferencing(req_id) ==
    LET hits == SelectSeq(rule_tests, LAMBDA t : \E n \in 1..Len(t.requirements) : t.requirements[n] = req_id)
    IN  [i \in 1..Len(hits) |-> hits[i].test_id]

\* C14: for requirements with distinct identifiers, build_baseline_tests
\* returns one test per requirement, in order, that references exactly that
\* requirement; the matrix build_trace_matrix makes of them has exactly the
\* requirement identifiers as keys, each once, and maps each to the
\* identifiers of the tests that reference it, the one test TC-<id>, so
\* that no entry is empty.
C14_BaselineTestsAndTraceMatrix ==
    DistinctRuleIds =>
        /\ pc \in {"baseline", "matrix"} =>
            /\ Len(rule_tests) = Len(rule_requirements)
            /\ \A i \in 1..Len(rule_tests) :
                /\ rule_tests[i].requirements = <<rule_requirements[i].req_id>>
                /\ rule_tests[i].test_id = <<"T","C","-">> \o rule_requirements[i].req_id
        /\ pc = "matrix" =>
            /\ {rule_matrix[i].req_id : i \in 1..Len(rule_matrix)}
                  = {rule_requirements[i].req_id : i \in 1..Len(rule_requirements)}
            /\ \A i, j \in 1..Len(rule_matrix) :
                  rule_matrix[i].req_id = rule_matrix[j].req_id => i = j
            /\ \A i \in 1..Len(rule_matrix) :
                /\ rule_matrix[i].tests = TestsReferencing(rule_matrix[i].req_id)
                /\ rule_matrix[i].tests = << <<"T","C","-">> \o rule_matrix[i].req_id >>

\* C14 witness: the matrix of three requirements with distinct identifiers.
C14_Witness ==
    /\ pc = "matrix"
    /\ DistinctRuleIds
    /\ Len(rule_requirements) = 3
    /\ Len(rule_matrix) = 3
    /\ rule_matrix[3].tests = << <<"T","C","-">> \o rule_requirements[3].req_id >>

---------------------------------------------------------------------------
(* Claims about the synthesizer, under SpecSynth.                          *)

\* The requirement of the store that test case k was synthesized from.
ReqOf(k) == Get(requirements, test_cases[k].requirement_id)

\* The test cases synthesized from the requirement req.
SynthesizedFrom(req) == {k \in 1..Len(test_cases) : ReqOf(k) = req}

\* Some step of the test case has this action; this expected result.
HasAction(tc, text) == \E n \in 1..Len(tc.test_steps) : tc.test_steps[n].action = text

HasExpected(tc, text) == \E n \in 1..Len(tc.test_steps) : tc.test_steps[n].expected_result = text

\* C12: the System requirement SYS_WIF_001 of safety level ASIL-A, about
\* detecting water below a resistance of 1000 ohms, yields the test case
\* TC_SYS_SYS_WIF_001_001 with safety level ASIL-A, a stimulus step at
\* 800 ohms, a read-back step expecting WIF_Status = 1 (Water Detected) and
\* pass criteria naming WIF_Status and P242F; a water-resistance
\* requirement with no ohm value gets 800 ohms too, and one with 50 ohms
\* gets -150 ohms: the value found, or 1000, minus 200.
C12_WaterScenarioAndStimulusValue ==
    /\ \A k \in SynthesizedFrom(SynWater) :
        LET tc == test_cases[k] IN
        /\ SynWater.req_id = <<"S","Y","S","_","W","I","F","_","0","0","1">>
        /\ tc.test_case_id = <<"T","C","_","S","Y","S","_","S","Y","S","_","W","I","F","_","0","0","1","_","0","0","1">>
        /\ tc.type = <<"S","y","s","t","e","m">>
        /\ tc.asil_level = <<"A","S","I","L","-","A">>
        /\ HasAction(tc, <<"S","e","t"," ","W","I","F","_","S","e","n","s","o","r","_","R","e","s","i","s","t","a","n","c","e"," ","="," ","8","0","0"," ","o","h","m","s"," ","v","i","a"," ","H","I","L">>)
        /\ HasExpected(tc, <<"W","I","F","_","S","t","a","t","u","s"," ","="," ","1"," ","(","W","a","t","e","r"," ","D","e","t","e","c","t","e","d",")">>)
        /\ \E n \in 1..Len(tc.test_steps) :
              /\ Contains(tc.test_steps[n].action, <<"R","e","a","d"," ","W","I","F","_","S","t","a","t","u","s">>)
              /\ tc.test_steps[n].expected_result = <<"W","I","F","_","S","t","a","t","u","s"," ","="," ","1"," ","(","W","a","t","e","r"," ","D","e","t","e","c","t","e","d",")">>
        /\ tc.pass_criteria # <<>>
        /\ Contains(tc.pass_criteria, <<"W","I","F","_","S","t","a","t","u","s">>)
        /\ Contains(tc.pass_criteria, <<"P","2","4","2","F">>)
    /\ \A k \in SynthesizedFrom(SynWaterNoThreshold) :
        /\ HasAction(test_cases[k], <<"S","e","t"," ","W","I","F","_","S","e","n","s","o","r","_","R","e","s","i","s","t","a","n","c","e"," ","="," ","8","0","0"," ","o","h","m","s"," ","v","i","a"," ","H","I","L">>)
        /\ HasExpected(test_cases[k], <<"H","I","L"," ","c","o","n","f","i","r","m","s"," ","r","e","s","i","s","t","a","n","c","e"," ","s","e","t"," ","t","o"," ","8","0","0"," ","o","h","m","s">>)
    /\ \A k \in SynthesizedFrom(SynWaterDiag) :
        /\ HasAction(test_cases[k], <<"S","e","t"," ","W","I","F","_","S","e","n","s","o","r","_","R","e","s","i","s","t","a","n","c","e"," ","="," ","-","1","5","0"," ","o","h","m","s"," ","v","i","a"," ","H","I","L">>)
        /\ HasExpected(test_cases[k], <<"H","I","L"," ","c","o","n","f","i","r","m","s"," ","r","e","s","i","s","t","a","n","c","e"," ","s","e","t"," ","t","o"," ","-","1","5","0"," ","o","h","m","s">>)

\* C12 witness: the test case of SYS_WIF_001 and the test case of the
\* requirement with 50 ohms have both been synthesized.
C12_Witness ==
    /\ SynthesizedFrom(SynWater) # {}
    /\ SynthesizedFrom(SynWaterDiag) # {}
    /\ \E k \in SynthesizedFrom(SynWater) :
          test_cases[k].test_steps[2].action = <<"S","e","t"," ","W","I","F","_","S","e","n","s","o","r","_","R","e","s","i","s","t","a","n","c","e"," ","="," ","8","0","0"," ","o","h","m","s"," ","v","i","a"," ","H","I","L">>

\* The counters of a generator that has allocated nothing.
FreshCounters == [sys |-> EmptyDict, sw |-> EmptyDict, diag |-> EmptyDict]

\* C15: whatever was synthesized before it, in its category or in another,
\* the test case of a requirement is the one a fresh generator makes for
\* that requirement alone, identifier included: the order of synthesis
\* changes no test case.
C15_SynthesisOrderIsImmaterial ==
    \A k \in 1..Len(test_cases) :
        /\ test_cases[k] = CreateTestCase(FreshCounters, ReqOf(k), ReqOf(k).req_type).tc
        /\ test_cases[k].test_case_id
              = GenerateTestCaseId(FreshCounters, ReqOf(k).req_id, ReqOf(k).req_type).id
        /\ SubSeq(test_cases[k].test_case_id, Len(test_cases[k].test_case_id) - 3,
                  Len(test_cases[k].test_case_id)) = <<"_","0","0","1">>

\* C15 witness: two requirements of one category with the same requirement
\* number, synthesized against the order of the store.
C15_Witness ==
    /\ requirements = <<SynWater, SynWaterNoThreshold>>
    /\ pending = {}
    /\ Len(test_cases) = 2
    /\ test_cases[1].requirement_id = SynWaterNoThreshold.req_id
    /\ test_cases[2].requirement_id = SynWater.req_id
    /\ test_cases[2].test_case_id = <<"T","C","_","S","Y","S","_","S","Y","S","_","W","I","F","_","0","0","1","_","0","0","1">>

\* The list object of test case k that field names, as it is now.
ListOf(k, field) == heap[tc_lists[k][field]]

\* C18: in every order of synthesis each System and Software test case has
\* exactly the three default preconditions and each Diagnostic test case
\* those three followed by the two diagnostic ones; the three shared
\* default lists stay as they were, every test case has its own copy of
\* the default postconditions and tools, and no list of a test case is a
\* list of another test case or a shared default list.
C18_PreconditionsAndNoSharedList ==
    /\ Len(heap) >= 3
    /\ heap[PreconditionsObj] =
          << <<"E","C","M"," ","p","o","w","e","r","e","d"," ","O","N">>, <<"C","A","N"," ","b","u","s"," ","a","c","t","i","v","e"," ","a","t"," ","5","0","0","k","b","p","s">>,
             <<"D","i","a","g","n","o","s","t","i","c"," ","s","e","s","s","i","o","n"," ","0","x","1","0"," ","0","x","0","1"," ","(","D","e","f","a","u","l","t",")">> >>
    /\ heap[PostconditionsObj] = DEFAULT_POSTCONDITIONS
    /\ heap[TestToolsObj] = DEFAULT_TEST_TOOLS
    /\ Len(tc_lists) = Len(test_cases)
    /\ \A k \in 1..Len(test_cases) :
        /\ ListOf(k, "preconditions") =
              IF test_cases[k].type = <<"D","i","a","g","n","o","s","t","i","c">>
              THEN heap[PreconditionsObj]
                   \o << <<"E","x","t","e","n","d","e","d"," ","d","i","a","g","n","o","s","t","i","c"," ","s","e","s","s","i","o","n"," ","0","x","1","0"," ","0","x","0","3"," ","a","c","t","i","v","e">>, <<"N","o"," ","p","e","n","d","i","n","g"," ","D","T","C","s">> >>
              ELSE heap[PreconditionsObj]
        /\ ListOf(k, "preconditions") = test_cases[k].preconditions
        /\ ListOf(k, "postconditions") = DEFAULT_POSTCONDITIONS
        /\ ListOf(k, "postconditions") = test_cases[k].postconditions
        /\ ListOf(k, "test_tools") = DEFAULT_TEST_TOOLS
        /\ ListOf(k, "test_tools") = test_cases[k].test_tools
        /\ \A f \in {"preconditions", "postconditions", "test_tools"} :
            /\ tc_lists[k][f] \notin {PreconditionsObj, PostconditionsObj, TestToolsObj}
            /\ \A j \in 1..Len(test_cases), g \in {"preconditions", "postconditions", "test_tools"} :
                  tc_lists[j][g] = tc_lists[k][f] => (j = k /\ g = f)

\* C18 witness: a Diagnostic test case created first and a System test case
\* created after it, five preconditions in the one and three in the other.
C18_Witness ==
    /\ Len(test_cases) = 2
    /\ test_cases[1].type = DIAGNOSTIC
    /\ test_cases[2].type = SYSTEM
    /\ Len(ListOf(1, "preconditions")) = 5
    /\ Len(ListOf(2, "preconditions")) = 3
    /\ Len(heap[PreconditionsObj]) = 3

\* The classes a requirement matches: by the words of its lower-cased
\* description and, for the diagnostic class, by its trouble code.
MatchesWater(req) ==
    /\ Contains(Lower(req.description), <<"w","a","t","e","r">>)
    /\ Contains(Lower(req.description), <<"r","e","s","i","s","t","a","n","c","e">>)

MatchesDiagnosticClass(req) ==
    \/ req.dtc_code \notin {None, <<>>}
    \/ Contains(Lower(req.description), <<"d","t","c">>)
    \/ Contains(Lower(req.description), <<"d","i","a","g","n","o","s","t","i","c">>)

MatchesCalibration(req) ==
    \/ Contains(Lower(req.description), <<"t","h","r","e","s","h","o","l","d">>)
    \/ Contains(Lower(req.description), <<"c","a","l","i","b","r","a","t","i","o","n">>)
    \/ Contains(Lower(req.description), <<"p","a","r","a","m","e","t","e","r">>)

\* The classes whose first step (step 2) is among the steps of the test case.
ClassesIn(tc) ==
    {c \in {"water", "dtc", "calibration", "default"} :
        \E n \in 1..Len(tc.test_steps) :
            LET a == tc.test_steps[n].action IN
            \/ c = "water" /\ OccursAt(a, <<"S","e","t"," ","W","I","F","_","S","e","n","s","o","r","_","R","e","s","i","s","t","a","n","c","e"," ","="," ">>, 1)
            \/ c = "dtc" /\ a = <<"T","r","i","g","g","e","r"," ","f","a","u","l","t"," ","c","o","n","d","i","t","i","o","n"," ","a","s"," ","p","e","r"," ","r","e","q","u","i","r","e","m","e","n","t"," ","s","p","e","c","i","f","i","c","a","t","i","o","n">>
            \/ c = "calibration" /\ OccursAt(a, <<"R","e","a","d"," ","c","u","r","r","e","n","t"," ","v","a","l","u","e"," ","o","f"," ">>, 1)
            \/ c = "default" /\ a = <<"C","o","n","f","i","g","u","r","e"," ","t","e","s","t"," ","c","o","n","d","i","t","i","o","n","s"," ","a","s"," ","s","p","e","c","i","f","i","e","d"," ","i","n"," ","r","e","q","u","i","r","e","m","e","n","t">>}

\* C19: the steps of a test case are those of one class, the first the
\* requirement matches in the order water-resistance, diagnostic,
\* calibration, default; they start with the setup step, end with the reset
\* step and are numbered 1..n, n being 4 for the calibration class and 5
\* for the others.
C19_FirstMatchClassAndNumbering ==
    \A k \in 1..Len(test_cases) :
        LET tc == test_cases[k]
            req == ReqOf(k)
            steps == tc.test_steps
            class == IF MatchesWater(req) THEN "water"
                     ELSE IF MatchesDiagnosticClass(req) THEN "dtc"
                     ELSE IF MatchesCalibration(req) THEN "calibration"
                     ELSE "default"
        IN  /\ ClassesIn(tc) = {class}
            /\ Len(steps) = (IF class = "calibration" THEN 4 ELSE 5)
            /\ \A n \in 1..Len(steps) : steps[n].step_no = n
            /\ steps[1].action = <<"I","n","i","t","i","a","l","i","z","e"," ","E","C","M"," ","a","n","d"," ","e","s","t","a","b","l","i","s","h"," ","C","A","N"," ","c","o","m","m","u","n","i","c","a","t","i","o","n"," ","a","t"," ","5","0","0","k","b","p","s">>
            /\ steps[1].expected_result = <<"E","C","M"," ","r","e","s","p","o","n","d","s"," ","t","o"," ","d","i","a","g","n","o","s","t","i","c"," ","r","e","q","u","e","s","t","s",","," ","C","A","N"," ","b","u","s"," ","s","t","a","t","u","s"," ","="," ","O","K">>
            /\ steps[Len(steps)].action = <<"R","e","s","e","t"," ","E","C","M"," ","a","n","d"," ","v","e","r","i","f","y"," ","n","o"," ","r","e","s","i","d","u","a","l"," ","f","a","u","l","t","s">>
            /\ steps[Len(steps)].expected_result = <<"E","C","M"," ","r","e","s","e","t"," ","c","o","m","p","l","e","t","e",","," ","n","o"," ","D","T","C","s"," ","s","t","o","r","e","d",","," ","s","y","s","t","e","m"," ","i","n"," ","d","e","f","a","u","l","t"," ","s","t","a","t","e">>
            /\ \A n \in 2..(Len(steps) - 1) :
                  steps[n].action \notin {steps[1].action, steps[Len(steps)].action}

\* C19 witness: a requirement that matches the three classes has the five
\* steps of the water-resistance class, and a requirement of the
\* calibration class has four steps.
C19_Witness ==
    /\ requirements = <<SynWaterDiag, SynCal>>
    /\ pending = {}
    /\ MatchesWater(SynWaterDiag) /\ MatchesDiagnosticClass(SynWaterDiag) /\ MatchesCalibration(SynWaterDiag)
    /\ \E k \in SynthesizedFrom(SynWaterDiag) :
          ClassesIn(test_cases[k]) = {"water"} /\ Len(test_cases[k].test_steps) = 5
    /\ \E k \in SynthesizedFrom(SynCal) :
          ClassesIn(test_cases[k]) = {"calibration"} /\ Len(test_cases[k].test_steps) = 4

\* C20: every step of every synthesized test case has an expected result
\* with a quantifiable token (a comparison sign, a digit, a boolean or a
\* hex literal), and the validation of the synthesized test cases reports
\* no NON_MEASURABLE_RESULT.
C20_EveryExpectedResultIsQuantifiable ==
    /\ \A k \in 1..Len(test_cases) : \A n \in 1..Len(test_cases[k].test_steps) :
          ~NoQuantifiableToken(test_cases[k].test_steps[n].expected_result)
    /\ v_op = "validate_all" =>
          \A i \in 1..Len(v_ret) : v_ret[i].error_type # "NON_MEASURABLE_RESULT"

\* C21: the traceability of a synthesized test case holds, for a System
\* requirement, only the system reference (its own id); for a Software
\* requirement, the software reference (its own id) and the system
\* reference exactly when a parent is declared (the parent); for a
\* Diagnostic requirement, only the diagnostic reference. The calibration
\* reference is the first declared calibration parameter when there is
\* one; otherwise a System requirement gets a synthesized fallback name,
\* and a Software or Diagnostic requirement gets none.
C21_TraceabilityOfEachCategory ==
    \A k \in 1..Len(test_cases) :
        LET req == ReqOf(k)
            trace == test_cases[k].traceability
        IN  /\ req.req_type = SYSTEM =>
                  /\ trace.system_req = req.req_id
                  /\ trace.software_req = None
                  /\ trace.diagnostic_req = None
            /\ req.req_type = SOFTWARE =>
                  /\ trace.software_req = req.req_id
                  /\ trace.system_req = (IF Truthy(req.parent_system_req) THEN req.parent_system_req ELSE None)
                  /\ trace.diagnostic_req = None
            /\ req.req_type = DIAGNOSTIC =>
                  /\ trace.diagnostic_req = req.req_id
                  /\ trace.system_req = None
                  /\ trace.software_req = None
            /\ req.calibration_params # <<>> => trace.a2l_reference = req.calibration_params[1]
            /\ req.calibration_params = <<>> /\ req.req_type = SYSTEM =>
                  /\ trace.a2l_reference # None
                  /\ Len(trace.a2l_reference) > 14
                  /\ OccursAt(trace.a2l_reference, <<"C","A","L","_","W","I","F","_","P","a","r","a","m","_">>, 1)
            /\ req.calibration_params = <<>> /\ req.req_type # SYSTEM => trace.a2l_reference = None

\* The error types of the step, pass-criteria and traceability checks that
\* a synthesized test case must not get.
StructuralErrorTypes ==
    {"NO_TEST_STEPS", "VAGUE_PASS_CRITERIA", "MISSING_SYSTEM_TRACE",
     "MISSING_SOFTWARE_TRACE", "MISSING_PARENT_TRACE", "MISSING_DIAGNOSTIC_TRACE"}

\* C27: every synthesized test case has at least one step, pass criteria
\* of at least 10 characters and the references its category requires
\* (for a Software requirement with a declared parent, the system
\* reference too); validated against the store it was synthesized from, it
\* gets none of NO_TEST_STEPS, VAGUE_PASS_CRITERIA, MISSING_SYSTEM_TRACE,
\* MISSING_SOFTWARE_TRACE, MISSING_PARENT_TRACE, MISSING_DIAGNOSTIC_TRACE.
C27_SynthesizedTestCasesAreStructurallyComplete ==
    /\ \A k \in 1..Len(test_cases) :
          LET tc == test_cases[k]
              req == ReqOf(k)
          IN  /\ Len(tc.test_steps) >= 1
              /\ Len(tc.pass_criteria) >= 10
              /\ tc.type = SYSTEM => Truthy(tc.traceability.system_req)
              /\ tc.type = SOFTWARE => Truthy(tc.traceability.software_req)
              /\ tc.type = SOFTWARE /\ Truthy(req.parent_system_req) =>
                    Truthy(tc.traceability.system_req)
              /\ tc.type = DIAGNOSTIC => Truthy(tc.traceability.diagnostic_req)
              /\ ErrorTypes(ErrorsOf(tc)) \cap StructuralErrorTypes = {}
    /\ v_op = "validate_all" => ErrorTypes(v_ret) \cap StructuralErrorTypes = {}

\* The test cases of a Software requirement with a declared parent and of
\* a Diagnostic requirement were synthesized and validated.
C27_Witness ==
    /\ v_op = "validate_all"
    /\ v_in = test_cases
    /\ SynthesizedFrom(SynDefault) # {}
    /\ SynthesizedFrom(SynDiag) # {}

\* C28: the test case of a System requirement with no calibration
\* parameter, whose calibration reference is the synthesized fallback
\* name, gets neither INVALID_A2L_FORMAT nor INVALID_A2L_REF, under the
\* empty and under a non-empty calibration-name set.
C28_FallbackReferenceIsNeverInvalid ==
    \A k \in 1..Len(test_cases) :
        ReqOf(k).req_type = SYSTEM /\ ReqOf(k).calibration_params = <<>> =>
            ErrorTypes(ErrorsOf(test_cases[k])) \cap {"INVALID_A2L_FORMAT", "INVALID_A2L_REF"} = {}

\* The text between 'Set WIF_Sensor_Resistance = ' and ' ohms via HIL' in
\* the stimulus step of a test case of the water-resistance class.
StimulusText(tc) ==
    LET a == tc.test_steps[2].action IN
    SubSeq(a, Len(<<"S","e","t"," ","W","I","F","_","S","e","n","s","o","r","_","R","e","s","i","s","t","a","n","c","e"," ","="," ">>) + 1, Len(a) - Len(<<" ","o","h","m","s"," ","v","i","a"," ","H","I","L">>))

\* C30: the stimulus resistance in the steps of every test case of the
\* water-resistance class is a non-negative number of ohms: a run of
\* digits with no sign, also for a threshold below 200.
C30_StimulusResistanceIsNonNegative ==
    \A k \in 1..Len(test_cases) :
        MatchesWater(ReqOf(k)) =>
            /\ StimulusText(test_cases[k]) # <<>>
            /\ \A i \in 1..Len(StimulusText(test_cases[k])) : IsDigit(StimulusText(test_cases[k])[i])

---------------------------------------------------------------------------
(* Claims about interleaved allocations, under SpecRace.                   *)

\* Both callers were given the same requirement identifier and category,
\* and both have returned.
BothReturnedForOneRequirement ==
    /\ t_arg["a"] = t_arg["b"]
    /\ \A t \in Callers : t_pc[t] = "done"

\* The count of the callers' requirement in the counter of its category.
RaceCount == Counters[Which(t_arg["a"].tc_type)][t_arg["a"].req_id]

\* The allocations made for the callers' requirement and category so far.
RaceAllocations ==
    Cardinality({i \in 1..Len(allocs) :
                    /\ allocs[i].req_id = t_arg["a"].req_id
                    /\ allocs[i].tc_type = t_arg["a"].tc_type})

\* C16: two allocations for one requirement and category that run one
\* after the other return different identifiers and leave the count equal
\* to the number of allocations made; the two return the same identifier,
\* or an increment is lost, only when their statements interleaved.
C16_SerialAllocationsDiffer ==
    BothReturnedForOneRequirement =>
        /\ ~overlapped => (t_ret["a"] # t_ret["b"] /\ RaceCount = RaceAllocations)
        /\ (t_ret["a"] = t_ret["b"] \/ RaceCount < RaceAllocations) => overlapped
        /\ RaceCount <= RaceAllocations

\* C16 witness: two interleaved allocations for one requirement on a fresh
\* generator have returned the same identifier, and the count is 1 after
\* two allocations.
C16_Witness ==
    /\ BothReturnedForOneRequirement
    /\ overlapped
    /\ t_ret["a"] = t_ret["b"]
    /\ RaceAllocations = 2
    /\ RaceCount = 1

=============================================================================
